---- MODULE Spec2Model ----
(***************************************************************************)
(* The Fitter of latqcdtools/statistics/fitting.py as a state machine:     *)
(* construction, try_fit (orchestrator) and the algorithm attempts that    *)
(* parallel_function_eval runs between the two halves of try_fit.          *)
(*                                                                         *)
(* Abstractions.  A parameter value is one of the tokens "0", "1", "2",    *)
(* "3", "4" or "nan" (NaN or Inf).  A chi-square is a number in            *)
(* 0..MaxChi2, and Inf (np.inf) is the number above all of them.  A        *)
(* parameter covariance matrix is a record naming its kind ("inf" as       *)
(* constructed, "nan" for dof <= 0, "cov" for a computed matrix) and the   *)
(* attempt that computed it; the parameter errors sqrt(diag(pcov)) carry   *)
(* the same record.  The fit function is known by the parameter-vector     *)
(* lengths it evaluates on (lo..hi).  The numerical solvers (scipy) are    *)
(* inputs: an attempt's minimisation either raises, yields NaN/Inf         *)
(* parameters, or yields a finite vector of the start vector's length      *)
(* with a finite chi-square.                                               *)
(*                                                                         *)
(* The estimators of latqcdtools/statistics/statistics.py (std_var,        *)
(* std_dev, jackknifeFrom, tauint, tauintj, getTauInt) are operators over  *)
(* exact rationals <<numerator, denominator>>, with <<0, 0>> for nan; one  *)
(* call of one estimator is one action.  The chi-square gradient and       *)
(* Hessian and the three array caches of the Fitter are queried on a       *)
(* constructed Fitter, with the data terms as inputs.                      *)
(*                                                                         *)
(* The parameter covariances pcov_error_prop and pcov_hessian are          *)
(* operators over matrices of those rationals for one or two parameters,   *)
(* with the rounding error of the matrix inverse as an input.  The        *)
(* constructors and exp() of HRG and EV_HRG (latqcdtools/physics/HRG.py)   *)
(* are actions over the quantum-number arrays of a small hadron list.      *)
(***************************************************************************)
EXTENDS Integers, Sequences, FiniteSets, TLC

VARIABLES
    ctor,           \* "no": not constructed, "ok": constructed, "error": __init__ raised
    stored,         \* __init__ has stored the data (self._xdata, self._ydata, ...)
    funcCalls,      \* evaluations of the fit function made by __init__
    kwargs,         \* the keyword names given to __init__
    func,           \* self._func: [lo, hi], the vector lengths it evaluates on
    _expand,        \* self._expand
    _errorAlg,      \* self._errorAlg
    _nproc,         \* self._nproc
    _numb_data,     \* self._numb_data = len(self._ydata)
    _xdata,         \* len(self._xdata): the number of independent samples
    _cov,           \* the shape <<rows, columns>> of self._cov
    _numb_params,   \* self._numb_params
    _saved_params,  \* self._saved_params
    _saved_pcov,    \* self._saved_pcov
    _priorval,      \* self._priorval
    _priorsigma,    \* self._priorsigma
    _checkprior,    \* self._checkprior
    _pcov,          \* self._pcov
    phase,          \* "idle", "attempts", "returned", "error": where try_fit is
    call,           \* the arguments of the current (or last) try_fit call
    rows,           \* resultSummary: one row per algorithm of the call
    ret,            \* the tuple try_fit returned, None if it has not returned
    err,            \* the error that ended the call (or __init__), "" if none
    report,         \* the TBFail lines try_fit printed: <<algorithm, exception>>
    attrWriters,    \* the attempts of this call that assigned a Fitter attribute
    ncalls,         \* try_fit calls made so far
    called,         \* the call of a statistics function: its name and arguments
    returned,       \* what that call returned or raised
    acoutfile,      \* the lines getTauInt wrote to its output file: the lags
    _cache_p_array, \* self._cache_p_array, None before the first evaluation
    _cache_array,   \* self._cache_array
    _cache_p_jac,   \* self._cache_p_jac
    _cache_jac,     \* self._cache_jac
    _cache_p_hess,  \* self._cache_p_hess
    _cache_hess,    \* self._cache_hess
    query,          \* the last call of a chi-square method: name and arguments
    answer,         \* what it returned, and the user functions it evaluated
    _use_diff,      \* self._use_diff
    _derive_chisq,  \* self._derive_chisq
    _grad,          \* self._grad: "None" or "user", the gradient the user supplied
    _hess,          \* self._hess: "None" or "user", the Hessian the user supplied
    grad,           \* self.grad: "None", "num_grad" or "wrap_grad"
    hess,           \* self.hess: "None", "num_hess" or "wrap_hess"
    gas,            \* the HRG or EV_HRG object constructed, and its arguments
    expcall         \* the last call of the object's exp and what it returned

vars == <<ctor, stored, funcCalls, kwargs, func, _expand, _errorAlg, _nproc,
          _numb_data, _xdata, _cov, _numb_params, _saved_params, _saved_pcov, _priorval,
          _priorsigma, _checkprior, _pcov, phase, call, rows, ret, err, report,
          attrWriters, ncalls, called, returned, acoutfile, _cache_p_array,
          _cache_array, _cache_p_jac, _cache_jac, _cache_p_hess, _cache_hess,
          query, answer, _use_diff, _derive_chisq, _grad, _hess, grad, hess,
          gas, expcall>>

(* The hadron resonance gas of physics/HRG.py, which no Fitter method and no *)
(* statistics function touches.                                              *)
hrgVars == <<gas, expcall>>

(* The derivative options and the wrappers set_func chooses. *)
derivVars == <<_use_diff, _derive_chisq, _grad, _hess, grad, hess>>

fitterOpts == <<ctor, stored, funcCalls, kwargs, func, _expand, _errorAlg, _nproc,
                _numb_data, _xdata, _cov, derivVars>>

(* The variables of the statistics functions, which no Fitter method writes. *)
estimatorVars == <<called, returned, acoutfile>>

(* The caches of the Fitter and the last call of its chi-square methods;    *)
(* the attempts of try_fit are modelled by their results, and the cache      *)
(* attributes they assign by attrWriters.                                    *)
cacheVars == <<_cache_p_array, _cache_array, _cache_p_jac, _cache_jac,
               _cache_p_hess, _cache_hess>>

chisquareVars == <<cacheVars, query, answer>>

(* The Fitter: what no statistics function writes. *)
fitterVars == <<fitterOpts, _numb_params, _saved_params, _saved_pcov, _priorval,
                _priorsigma, _checkprior, _pcov, phase, call, rows, ret, err,
                report, attrWriters, ncalls>>

----------------------------------------------------------------------------
(* Bounds of the model. *)

MaxData == 2        \* data points: 1..MaxData
MaxParams == 2      \* parameters of the fit function: 1..MaxParams
MaxChi2 == 1        \* chi-square values: 0..MaxChi2
MaxCalls == 2       \* try_fit calls per Fitter
MaxProc == 2        \* worker count: 1..MaxProc

(* np.inf as a chi-square: above every finite value. *)
Inf == MaxChi2 + 1

(* Python's None where a vector is expected. *)
None == <<"None">>

(* A vector of n copies of v: np.ones(n), np.zeros(n), np.full(n, v). *)
Const(v, n) == [i \in 1..n |-> v]

ones(n) == Const("1", n)

zeros(n) == Const("0", n)

(* any(np.isnan(v) | np.isinf(v)) *)
HasNaN(v) == \E i \in 1..Len(v) : v[i] = "nan"

----------------------------------------------------------------------------
(* Class attributes. *)

_allowed_keys == {"grad", "hess", "args", "expand", "grad_args", "hess_args", "tol",
                  "use_diff", "error_strat", "norm_err_chi2", "derive_chisq",
                  "eig_threshold", "test_tol", "max_fev", "nproc"}

_all_algs == <<"curve_fit", "L-BFGS-B", "TNC", "Powell", "Nelder-Mead", "COBYLA",
               "SLSQP", "CG", "dogleg", "trust-ncg">>

_std_algs == <<"curve_fit", "TNC", "Powell", "Nelder-Mead", "COBYLA">>

(* The number of probes _get_numb_params makes at most. *)
ntries == 1000

----------------------------------------------------------------------------
(* The fit function and the parameter count. *)

(* funcExpand(self._func, self._xdata, params, ...) evaluates without raising. *)
Accepts(f, params) == Len(params) \in f.lo..f.hi

(* The probing loop of _get_numb_params over the sizes a..b, in increasing   *)
(* order (the sizes of the first half before those of the second): the      *)
(* first size that evaluates, 0 when none does.                             *)
RECURSIVE ProbeRange(_, _, _)
ProbeRange(f, a, b) ==
    IF a > b THEN 0
    ELSE IF a = b THEN (IF Accepts(f, ones(a)) THEN a ELSE 0)
    ELSE LET mid == (a + b) \div 2
             first == ProbeRange(f, a, mid)
         IN  IF first # 0 THEN first ELSE ProbeRange(f, mid + 1, b)

(* The loop from size i on: for i in range(ntries), sizes i..ntries. *)
ProbeOneFewer(f, i) == ProbeRange(f, i, ntries - 1)

Probe(f, i) == ProbeRange(f, i, ntries)

(* _get_numb_params: the signature's count in expand mode, the first size    *)
(* that evaluates otherwise.                                                 *)
get_numb_params(f, expand) == IF expand THEN f.hi ELSE Probe(f, 1)

(* check_start_params on the vector just stored in self._saved_params: the   *)
(* vector it leaves there, and whether it re-raised the function's error.    *)
check_start_paramsKeepingNaN(f, expand, saved) ==
    IF ~Accepts(f, saved)
    THEN [params |-> ones(get_numb_params(f, expand)), raised |-> TRUE]
    ELSE [params |-> saved, raised |-> FALSE]

check_start_params(f, expand, saved) ==
    IF ~Accepts(f, saved)
    THEN [params |-> ones(get_numb_params(f, expand)), raised |-> TRUE]
    ELSE IF HasNaN(saved)
    THEN [params |-> ones(get_numb_params(f, expand)), raised |-> FALSE]
    ELSE [params |-> saved, raised |-> FALSE]

----------------------------------------------------------------------------
(* Values. *)

(* A parameter covariance matrix, and the errors sqrt(diag(pcov)) read off it. *)
Cov(kind, i) == [kind |-> kind, of |-> i]

(* None where a matrix is expected. *)
NoCov == Cov("none", 0)

(* A row of resultSummary whose attempt has not started. *)
PendingRow == [st |-> "pending", start |-> None, params |-> None, errors |-> NoCov,
               chi2 |-> Inf, pcov |-> NoCov, exc |-> ""]

(* _tryAlgorithm's except branch: return None, None, np.inf, None, e *)
FailedRow(start, e) == [st |-> "done", start |-> start, params |-> None,
                        errors |-> NoCov, chi2 |-> Inf, pcov |-> NoCov, exc |-> e]

(* The inputs the model draws from. *)
FuncChoices == {[lo |-> 1, hi |-> h] : h \in 1..MaxParams}

InputKeys == {"error_strat", "func_sup_numpy"}

ErrorStrats == {"propagation", "hessian"}

AlgChoices == {<<"curve_fit">>, <<"TNC", "curve_fit">>, <<"TNC", "Powell">>}

StartChoices == {None, <<"4">>, <<"nan">>} \cup {Const("4", MaxParams)}

PriorvalChoices == {None, <<"3">>} \cup {Const("3", MaxParams)}

PriorsigmaChoices == {None, <<"1">>} \cup {Const("1", MaxParams)}

(* The finite parameter vectors a solver may return for n parameters. *)
ResultVals == {"2", "3"}

SolverParams(n) == {Const(v, n) : v \in ResultVals}

----------------------------------------------------------------------------
(* Construction. *)

Init ==
    /\ ctor = "no"
    /\ stored = FALSE
    /\ funcCalls = 0
    /\ kwargs = {}
    /\ func = [lo |-> 1, hi |-> 1]
    /\ _expand = TRUE
    /\ _errorAlg = "propagation"
    /\ _nproc = 1
    /\ _numb_data = 0
    /\ _xdata = 0
    /\ _cov = <<0, 0>>
    /\ _numb_params = 0
    /\ _saved_params = <<>>
    /\ _saved_pcov = NoCov
    /\ _priorval = <<>>
    /\ _priorsigma = <<>>
    /\ _checkprior = FALSE
    /\ _pcov = NoCov
    /\ phase = "idle"
    /\ call = [algorithms |-> <<>>, start_params |-> None, priorval |-> None,
               priorsigma |-> None, prevBest |-> None, prevCheckprior |-> FALSE]
    /\ rows = <<>>
    /\ ret = <<>>
    /\ err = ""
    /\ report = <<>>
    /\ attrWriters = {}
    /\ ncalls = 0
    /\ called = <<>>
    /\ returned = <<>>
    /\ acoutfile = <<>>
    /\ _cache_p_array = None
    /\ _cache_array = None
    /\ _cache_p_jac = None
    /\ _cache_jac = None
    /\ _cache_p_hess = None
    /\ _cache_hess = None
    /\ query = [seq |-> 0, name |-> "", params |-> None, data |-> None]
    /\ answer = [val |-> None, evaluated |-> {}]
    /\ _use_diff = TRUE
    /\ _derive_chisq = FALSE
    /\ _grad = "None"
    /\ _hess = "None"
    /\ grad = "None"
    /\ hess = "None"
    /\ gas = [class |-> "", args |-> [B |-> <<>>, S |-> <<>>, Q |-> <<>>],
              B |-> <<>>, S |-> <<>>, Q |-> <<>>, C |-> <<>>]
    /\ expcall = [N |-> 0, T |-> 1, k |-> 0, mu_B |-> 0, mu_Q |-> 0, mu_S |-> 0,
                  val |-> <<>>]

(* diff = set(set(kwargs.keys()) - set(self._allowed_keys)) *)
IllegalKeysUnchecked(keys) == {}

IllegalKeys(keys) == keys \ _allowed_keys

(* edata as given to __init__: absent, a 1-D sequence of errors, or a 2-D    *)
(* matrix; known by its shape.                                               *)
NoEdata == [ndim |-> 0, rows |-> 0, cols |-> 0]

Errors(n) == [ndim |-> 1, rows |-> n, cols |-> 0]

Matrix(r, c) == [ndim |-> 2, rows |-> r, cols |-> c]

(* The shape of self._cov: edata itself when 2-D, np.diag(edata**2) when     *)
(* 1-D, np.diag(np.ones(len(self._ydata))) when absent.                      *)
CovShape(ydata, edata) ==
    IF edata.ndim = 2 THEN <<edata.rows, edata.cols>>
    ELSE IF edata.ndim = 1 THEN <<edata.rows, edata.rows>>
    ELSE <<ydata, ydata>>

(* norm_cov(cov) raises IndexError: it reads cov[j][j] and cov[i][i] for     *)
(* every i < len(cov) and j < len(cov[0]).                                   *)
norm_cov_raises(cov) ==
    \E i \in 1..cov[1], j \in 1..cov[2] : j > cov[1] \/ i > cov[2]

(* The wrappers set_func chooses (lines 281-297), the Hessian's first: what   *)
(* self.hess, self.grad and self._derive_chisq are afterwards.                *)
set_func_wrappersGradFirst(use_diff, derive_chisq, usergrad, userhess) ==
    LET g == IF usergrad # "None" THEN "wrap_grad"
             ELSE IF use_diff /\ ~derive_chisq THEN "num_grad" ELSE "None"
        h == IF userhess # "None" /\ g # "None" THEN "wrap_hess"
             ELSE IF use_diff /\ ~derive_chisq /\ g # "None" THEN "num_hess" ELSE "None"
    IN  [hess |-> h, grad |-> g, derive_chisq |-> derive_chisq \/ g = "None" \/ h = "None"]

set_func_wrappers(use_diff, derive_chisq, usergrad, userhess) ==
    LET h == IF userhess # "None" THEN "wrap_hess"
             ELSE IF use_diff /\ ~derive_chisq THEN "num_hess" ELSE "None"
        derived == IF userhess = "None" /\ ~(use_diff /\ ~derive_chisq)
                   THEN TRUE ELSE derive_chisq
        g == IF usergrad # "None" THEN "wrap_grad"
             ELSE IF use_diff /\ ~derived THEN "num_grad" ELSE "None"
    IN  [hess |-> h, grad |-> g,
         derive_chisq |-> IF usergrad = "None" /\ ~(use_diff /\ ~derived)
                          THEN TRUE ELSE derived]

(* Fitter.__init__(func, xdata, ydata, edata, **kwargs): keys are the keyword *)
(* names given, xdata and ydata the lengths of the two data sequences, edata  *)
(* the shape of the error data, f the fit function; error_strat, expand,      *)
(* nproc, use_diff, derive_chisq, grad and hess are the values of those       *)
(* options (given or default).                                                *)
ConstructWith(keys, xdata, ydata, edata, f, error_strat, expand, nproc, use_diff, derive_chisq, usergrad, userhess) ==
    /\ ctor = "no"
    /\ kwargs' = keys
    /\ IF IllegalKeys(keys) # {}
       THEN \* logger.TBError("Illegal argument(s) to fitter", *diff)
            /\ ctor' = "error"
            /\ err' = "TBError: Illegal argument(s) to fitter"
            /\ UNCHANGED <<stored, funcCalls, func, _expand, _errorAlg, _nproc,
                           _numb_data, _xdata, _cov, _numb_params, _saved_params, _saved_pcov,
                           _priorval, _priorsigma, _checkprior, _pcov, derivVars>>
       ELSE LET numb == get_numb_params(f, expand)
                chk == check_start_params(f, expand, ones(numb))
                w == set_func_wrappers(use_diff, derive_chisq, usergrad, userhess)
            IN  /\ stored' = TRUE
                /\ _use_diff' = use_diff
                /\ IF numb = 0
                   THEN \* set_func is not reached
                        /\ _derive_chisq' = derive_chisq
                        /\ _grad' = "None" /\ _hess' = "None"
                        /\ grad' = "None" /\ hess' = "None"
                   ELSE /\ _derive_chisq' = w.derive_chisq
                        /\ _grad' = usergrad /\ _hess' = userhess
                        /\ grad' = w.grad /\ hess' = w.hess
                /\ _xdata' = xdata
                /\ _numb_data' = ydata
                /\ _expand' = expand
                /\ _errorAlg' = error_strat
                /\ _nproc' = nproc
                /\ func' = f
                /\ _numb_params' = numb
                /\ _pcov' = NoCov
                /\ IF numb = 0
                   THEN \* logger.TBError("Fit function does not work with up to", ntries, ...)
                        /\ ctor' = "error"
                        /\ err' = "TBError: Fit function does not work"
                        /\ funcCalls' = ntries
                        /\ UNCHANGED <<_cov, _saved_params, _saved_pcov, _priorval,
                                       _priorsigma, _checkprior>>
                   ELSE /\ funcCalls' = (IF expand THEN 0 ELSE numb) + 1
                        /\ _saved_params' = chk.params
                        /\ _saved_pcov' = Cov("inf", 0)
                        /\ IF chk.raised
                           THEN \* set_func -> check_start_params: raise e
                                /\ ctor' = "error"
                                /\ err' = "Exception: function cannot handle start_parameters"
                                /\ UNCHANGED <<_cov, _priorval, _priorsigma, _checkprior>>
                           ELSE /\ _cov' = CovShape(ydata, edata)
                                /\ IF norm_cov_raises(CovShape(ydata, edata))
                                   THEN /\ ctor' = "error"
                                        /\ err' = "IndexError: norm_cov"
                                   ELSE /\ ctor' = "ok"
                                        /\ err' = ""
                                /\ _priorval' = ones(numb)
                                /\ _priorsigma' = ones(numb)
                                /\ _checkprior' = FALSE
    /\ UNCHANGED <<phase, call, rows, ret, report, attrWriters, ncalls, estimatorVars,
                   chisquareVars, hrgVars>>

(* __init__ with the derivative options at their defaults: use_diff = True,  *)
(* derive_chisq = False, no grad, no hess.                                   *)
Construct(keys, xdata, ydata, edata, f, error_strat, expand, nproc) ==
    ConstructWith(keys, xdata, ydata, edata, f, error_strat, expand, nproc,
                  TRUE, FALSE, "None", "None")

(* set_func(func, grad, hess) on a constructed Fitter, between try_fit       *)
(* calls: the wrappers, then check_start_params on the retained vector.      *)
set_func(f, usergrad, userhess) ==
    /\ ctor = "ok"
    /\ phase # "attempts"
    /\ LET w == set_func_wrappers(_use_diff, _derive_chisq, usergrad, userhess)
           chk == check_start_params(f, _expand, _saved_params)
       IN  /\ func' = f
           /\ _grad' = usergrad /\ _hess' = userhess
           /\ grad' = w.grad /\ hess' = w.hess
           /\ _derive_chisq' = w.derive_chisq
           /\ _saved_params' = chk.params
           /\ _numb_params' = IF chk.params # _saved_params
                               THEN Len(chk.params) ELSE _numb_params
           /\ err' = IF chk.raised
                     THEN "Exception: function cannot handle start_parameters" ELSE ""
    /\ UNCHANGED <<ctor, stored, funcCalls, kwargs, _expand, _errorAlg, _nproc,
                   _numb_data, _xdata, _cov, _use_diff, _saved_pcov, _priorval,
                   _priorsigma, _checkprior, _pcov, phase, call, rows, ret, report,
                   attrWriters, ncalls, estimatorVars, chisquareVars, hrgVars>>

(* The gradient and Hessian of the chi-square minimize_chi2 hands to         *)
(* minimize (lines 446-454).                                                 *)
jac_func(grad_) == IF grad_ # "None" THEN "grad_chisquare" ELSE "None"

hess_func(hess_) == IF hess_ # "None" THEN "hess_chisquare" ELSE "None"

----------------------------------------------------------------------------
(* try_fit, up to the dispatch of the attempts (lines 642-689). *)

(* algorithms = self._std_algs for None, self._all_algs for 'all'. *)
ResolveAlgorithms(algorithms) ==
    IF algorithms = None THEN _std_algs
    ELSE IF algorithms = <<"all">> THEN _all_algs
    ELSE algorithms

(* The start vector try_fit stores: prior values are the start when no      *)
(* start_params are given; None when neither is given.                      *)
StartOfIgnoringPrior(start_params, priorval) == start_params

StartOf(start_params, priorval) ==
    IF priorval # None /\ start_params = None THEN priorval ELSE start_params

(* The TBError of try_fit's prior initialisation and consistency check, ""  *)
(* if there is none; numb is self._numb_params = len(self._saved_params).   *)
PriorErrorNoLengthCheck(priorval, priorsigma, numb) ==
    IF priorsigma # None /\ priorval = None
    THEN "TBError: priorsigma passed but priorval is None"
    ELSE IF priorsigma = None /\ priorval # None
    THEN "TBError: priorval passed but priorsigma is None"
    ELSE ""

PriorError(priorval, priorsigma, numb) ==
    IF priorsigma # None /\ priorval = None
    THEN "TBError: priorsigma passed but priorval is None"
    ELSE IF priorsigma = None /\ priorval # None
    THEN "TBError: priorval passed but priorsigma is None"
    ELSE IF priorsigma # None /\ Len(priorsigma) # numb
    THEN "TBError: Number priorsigma != number of fit parameters"
    ELSE IF priorsigma # None /\ Len(priorval) # numb
    THEN "TBError: Number priorval != number of fit parameters"
    ELSE ""

(* The else branch of try_fit's prior initialisation (lines 677-679). *)
ResetPriorsKeepingActivation(numb) ==
    /\ _priorval' = zeros(numb)
    /\ _priorsigma' = ones(numb)
    /\ _checkprior' = _checkprior

ResetPriors(numb) ==
    /\ _priorval' = zeros(numb)
    /\ _priorsigma' = ones(numb)
    /\ _checkprior' = FALSE

(* The prior and prior_err calc_chisquare hands to chisquare (lines 380-383). *)
calc_chisquare_prior(checkprior, priorval, priorsigma) ==
    IF checkprior THEN <<priorval, priorsigma>> ELSE <<None, None>>

(* try_fit(algorithms, start_params, priorval, priorsigma) from its first   *)
(* line to the call of parallel_function_eval.                              *)
TryFitBegin(algorithms, start_params, priorval, priorsigma) ==
    /\ ctor = "ok"
    /\ phase \in {"idle", "returned", "error"}
    /\ ncalls < MaxCalls
    /\ LET algs == ResolveAlgorithms(algorithms)
           start == StartOf(start_params, priorval)
           chk == check_start_params(func, _expand,
                                     IF start # None THEN start ELSE _saved_params)
           numb == Len(chk.params)
           perr == PriorError(priorval, priorsigma, numb)
           \* the prior attributes are reset when no prior is given
           assignedNone == ~chk.raised /\ priorsigma = None /\ priorval = None
       IN  /\ ncalls' = ncalls + 1
           /\ call' = [algorithms |-> algs, start_params |-> start_params,
                       priorval |-> priorval, priorsigma |-> priorsigma,
                       prevBest |-> IF phase = "returned" THEN ret[1].params ELSE None,
                       prevCheckprior |-> _checkprior]
           /\ _saved_params' = chk.params
           /\ _numb_params' = numb
           /\ IF ~chk.raised /\ priorsigma # None /\ priorval # None
              THEN /\ _priorsigma' = priorsigma
                   /\ _priorval' = priorval
                   /\ _checkprior' = TRUE
              ELSE IF assignedNone
              THEN ResetPriors(numb)
              ELSE UNCHANGED <<_priorval, _priorsigma, _checkprior>>
           /\ IF chk.raised
              THEN /\ phase' = "error"
                   /\ err' = "Exception: function cannot handle start_parameters"
                   /\ rows' = <<>>
              ELSE IF perr # ""
              THEN /\ phase' = "error"
                   /\ err' = perr
                   /\ rows' = <<>>
              ELSE /\ phase' = "attempts"
                   /\ err' = ""
                   /\ rows' = [i \in 1..Len(algs) |-> PendingRow]
           /\ ret' = <<>>
           /\ report' = <<>>
           /\ attrWriters' = {}
    /\ UNCHANGED <<hrgVars, estimatorVars, chisquareVars, fitterOpts, _saved_pcov, _pcov>>

----------------------------------------------------------------------------
(* One algorithm attempt: _tryAlgorithm -> _general_fit, run by               *)
(* parallel_function_eval on at most self._nproc workers.                     *)

(* A logger.TBError raised inside an attempt: it is no Exception that         *)
(* _tryAlgorithm catches, and ends the try_fit call.                          *)
Fatal(message) ==
    /\ phase' = "error"
    /\ err' = message
    /\ UNCHANGED <<hrgVars, estimatorVars, chisquareVars, fitterOpts, _numb_params, _saved_params, _saved_pcov, _priorval,
                   _priorsigma, _checkprior, _pcov, call, rows, ret, report,
                   attrWriters, ncalls>>

(* parallel_function_eval hands out the algorithms in order to at most nproc *)
(* workers: attempt i runs once fewer than nproc earlier attempts are left.  *)
MayRun(i, nproc) ==
    /\ phase = "attempts"
    /\ i \in 1..Len(rows)
    /\ rows[i].st = "pending"
    /\ Cardinality({j \in 1..(i - 1) : rows[j].st = "pending"}) < nproc

(* getDOF: the data count with priors, data count minus parameter count      *)
(* without (negative: logger.TBError).                                        *)
getDOFIgnoringPriors(checkprior, numb_data, params) == numb_data - Len(params)

getDOF(checkprior, numb_data, params) ==
    IF checkprior THEN numb_data ELSE numb_data - Len(params)

(* getDOF's check: if dof < 0: logger.TBError('Fewer data than fit parameters!') *)
FewerDataUnchecked(dof) == FALSE

FewerData(dof) == dof < 0

(* What minimize_chi2(start, algorithm) can do: end the call with a TBError  *)
(* (curve_fit with priors), raise (the solver, or the NaN/Inf check), or     *)
(* return finite parameters and their chi-square.                            *)
minimize_chi2AnyAlgorithmWithPriors(start, algorithm, checkprior) ==
    {[kind |-> "raise", params |-> None, chi2 |-> Inf, msg |-> "solver raised"],
     [kind |-> "raise", params |-> None, chi2 |-> Inf,
      msg |-> "Fit result is inf or nan!"]}
    \cup {[kind |-> "ok", params |-> p, chi2 |-> c, msg |-> ""] :
             p \in SolverParams(Len(start)), c \in 0..MaxChi2}

minimize_chi2(start, algorithm, checkprior) ==
    IF algorithm = "curve_fit" /\ checkprior
    THEN {[kind |-> "fatal", params |-> None, chi2 |-> Inf,
           msg |-> "TBError: The curve_fit algorithm is not yet able to handle priors."]}
    ELSE {[kind |-> "raise", params |-> None, chi2 |-> Inf, msg |-> "solver raised"],
          [kind |-> "raise", params |-> None, chi2 |-> Inf,
           msg |-> "Fit result is inf or nan!"]}
         \cup {[kind |-> "ok", params |-> p, chi2 |-> c, msg |-> ""] :
                  p \in SolverParams(Len(start)), c \in 0..MaxChi2}

(* What compute_err(params, chi2, algorithm) of attempt i can do: end the    *)
(* call with a TBError, raise, or assign self._pcov and return it.           *)
compute_err(i, params, checkprior, numb_data, errorAlg) ==
    LET dof == getDOF(checkprior, numb_data, params)
    IN  IF FewerData(dof)
        THEN {[kind |-> "fatal", pcov |-> NoCov,
               msg |-> "TBError: Fewer data than fit parameters!"]}
        ELSE IF dof <= 0
        THEN {[kind |-> "ok", pcov |-> Cov("nan", i), msg |-> ""]}
        ELSE IF errorAlg = "propagation"
        THEN {[kind |-> "ok", pcov |-> Cov("cov", i), msg |-> ""],
              [kind |-> "raise", pcov |-> NoCov, msg |-> "pcov_error_prop raised"]}
        ELSE IF errorAlg = "hessian"
        THEN {[kind |-> "ok", pcov |-> Cov("cov", i), msg |-> ""],
              [kind |-> "raise", pcov |-> NoCov, msg |-> "pcov_hessian raised"]}
        ELSE {[kind |-> "fatal", pcov |-> NoCov,
               msg |-> "TBError: Unknown fitting algorithm"]}

(* _tryAlgorithm(algorithm, ...) of attempt i: _general_fit, with every      *)
(* Exception turned into the row (None, None, np.inf, None, e).              *)
tryAlgorithm(i) ==
    /\ MayRun(i, _nproc)
    /\ LET start == _saved_params
           Rest == UNCHANGED <<hrgVars, estimatorVars, chisquareVars, fitterOpts, _numb_params, _saved_params, _saved_pcov,
                               _priorval, _priorsigma, _checkprior, phase, call, ret,
                               err, report, ncalls>>
       IN  \E m \in minimize_chi2(start, call.algorithms[i], _checkprior) :
               IF m.kind = "fatal" THEN Fatal(m.msg)
               ELSE IF m.kind = "raise"
               THEN /\ rows' = [rows EXCEPT ![i] = FailedRow(start, m.msg)]
                    /\ UNCHANGED <<_pcov, attrWriters>>
                    /\ Rest
               ELSE \E e \in compute_err(i, m.params, _checkprior, _numb_data, _errorAlg) :
                        IF e.kind = "fatal" THEN Fatal(e.msg)
                        ELSE IF e.kind = "raise"
                        THEN /\ rows' = [rows EXCEPT ![i] = FailedRow(start, e.msg)]
                             /\ UNCHANGED <<_pcov, attrWriters>>
                             /\ Rest
                        ELSE /\ _pcov' = e.pcov
                             /\ attrWriters' = attrWriters \cup {i}
                             /\ rows' = [rows EXCEPT ![i] =
                                            [st |-> "done", start |-> start,
                                             params |-> m.params, errors |-> e.pcov,
                                             chi2 |-> m.chi2, pcov |-> e.pcov,
                                             exc |-> ""]]
                             /\ Rest

----------------------------------------------------------------------------
(* try_fit after the attempts (lines 690-732). *)

(* resultSummary holds the row of every algorithm when try_fit goes on. *)
AttemptsCompleteAny == \E i \in 1..Len(rows) : rows[i].st = "done"

AttemptsComplete == \A i \in 1..Len(rows) : rows[i].st = "done"

(* np.all(np.array(all_chi2) == np.inf) *)
AllFailed(all_chi2) == \A i \in 1..Len(all_chi2) : all_chi2[i] = Inf

(* np.argmin(all_chi2): the first index of the smallest value. *)
argmax(all_chi2) ==
    CHOOSE i \in 1..Len(all_chi2) :
        /\ \A j \in 1..Len(all_chi2) : all_chi2[i] >= all_chi2[j]
        /\ \A j \in 1..(i - 1) : all_chi2[j] < all_chi2[i]

argmin(all_chi2) ==
    CHOOSE i \in 1..Len(all_chi2) :
        /\ \A j \in 1..Len(all_chi2) : all_chi2[i] <= all_chi2[j]
        /\ \A j \in 1..(i - 1) : all_chi2[j] > all_chi2[i]

(* for i, algorithm in enumerate(algorithms):                                 *)
(*     logger.TBFail(algorithm+"--",all_except[i])                            *)
TBFailLinesFirstOnly(algorithms, all_except) ==
    [i \in 1..1 |-> <<algorithms[i], all_except[i]>>]

TBFailLines(algorithms, all_except) ==
    [i \in 1..Len(algorithms) |-> <<algorithms[i], all_except[i]>>]

(* The tuple try_fit returns with detailedInfo (without it, the first three  *)
(* entries): chidof is chi2/dof, np.inf for dof <= 0.                        *)
Returned(best, dof) ==
    [params |-> best.params, errors |-> best.errors, chi2 |-> best.chi2,
     dof |-> dof, chidofInf |-> dof <= 0, pcov |-> best.pcov]

TryFitSelect ==
    /\ phase = "attempts"
    /\ AttemptsComplete
    /\ LET all_chi2 == [i \in 1..Len(rows) |-> rows[i].chi2]
           all_except == [i \in 1..Len(rows) |-> rows[i].exc]
       IN  IF AllFailed(all_chi2)
           THEN /\ report' = TBFailLines(call.algorithms, all_except)
                /\ phase' = "error"
                /\ err' = "TBError: No algorithm converged."
                /\ UNCHANGED <<_saved_params, _saved_pcov, ret>>
           ELSE LET min_ind == argmin(all_chi2)
                    best == rows[min_ind]
                    dof == getDOF(_checkprior, _numb_data, best.params)
                IN  /\ _saved_params' = best.params
                    /\ _saved_pcov' = best.pcov
                    /\ report' = report
                    /\ IF FewerData(dof)
                       THEN /\ phase' = "error"
                            /\ err' = "TBError: Fewer data than fit parameters!"
                            /\ ret' = ret
                       ELSE /\ phase' = "returned"
                            /\ err' = err
                            /\ ret' = <<Returned(best, dof)>>
    /\ UNCHANGED <<hrgVars, estimatorVars, chisquareVars, fitterOpts, _numb_params, _priorval, _priorsigma, _checkprior,
                   _pcov, call, rows, attrWriters, ncalls>>

----------------------------------------------------------------------------
(* The specification. *)

Next ==
    \/ \E keys \in SUBSET InputKeys, n \in 1..MaxData, f \in FuncChoices,
          error_strat \in ErrorStrats, expand \in BOOLEAN, nproc \in 1..MaxProc :
          /\ ("error_strat" \in keys <=> error_strat # "propagation")
          /\ Construct(keys, n, n, NoEdata, f, error_strat, expand, nproc)
    \/ \E algorithms \in AlgChoices, start_params \in StartChoices,
          priorval \in PriorvalChoices, priorsigma \in PriorsigmaChoices :
          /\ ncalls = 0
          /\ TryFitBegin(algorithms, start_params, priorval, priorsigma)
    \/ \E i \in 1..Len(rows) : tryAlgorithm(i)
    \/ TryFitSelect

Spec == Init /\ [][Next]_vars

(* Sequences of up to MaxCalls try_fit calls on one Fitter, each call drawn  *)
(* from fewer inputs than the first call of Spec.                            *)
SeqAlgChoices == {<<"TNC">>, <<"curve_fit", "TNC">>}

NextSeq ==
    \/ \E f \in FuncChoices, expand \in BOOLEAN :
          Construct({}, MaxData, MaxData, NoEdata, f, "propagation", expand, 1)
    \/ \E algorithms \in SeqAlgChoices, start_params \in StartChoices,
          priorval \in PriorvalChoices, priorsigma \in PriorsigmaChoices :
          TryFitBegin(algorithms, start_params, priorval, priorsigma)
    \/ \E i \in 1..Len(rows) : tryAlgorithm(i)
    \/ TryFitSelect

SpecSeq == Init /\ [][NextSeq]_vars

(* Construction alone, over data sequences and error data of every shape.    *)
EdataChoices ==
    {NoEdata} \cup {Errors(n) : n \in 1..MaxData}
              \cup {Matrix(r, c) : r \in 1..MaxData, c \in 1..MaxData}

NextShapes ==
    \E keys \in SUBSET InputKeys, xdata \in 1..MaxData, ydata \in 1..MaxData,
       edata \in EdataChoices, f \in FuncChoices, error_strat \in ErrorStrats,
       expand \in BOOLEAN :
       /\ ("error_strat" \in keys <=> error_strat # "propagation")
       /\ Construct(keys, xdata, ydata, edata, f, error_strat, expand, 1)

SpecShapes == Init /\ [][NextShapes]_vars

(* Construction and the start of try_fit calls for packed and expanded fit   *)
(* functions that evaluate from size 1, 2, 3, only at the last probed size,  *)
(* or at no probed size.                                                     *)
ProbeFuncChoices ==
    {[lo |-> l, hi |-> l + d] : l \in {1, 2, 3, ntries, ntries + 1}, d \in 0..1}

ProbeStartChoices == {None, <<"4">>, <<"nan", "nan">>, Const("4", 3)}

NextProbe ==
    \/ \E f \in ProbeFuncChoices, expand \in BOOLEAN :
          Construct({}, MaxData, MaxData, NoEdata, f, "propagation", expand, 1)
    \/ \E start_params \in ProbeStartChoices :
          /\ phase # "attempts"
          /\ TryFitBegin(<<"TNC">>, start_params, None, None)

SpecProbe == Init /\ [][NextProbe]_vars

(* do_fit(algorithm, **kwargs): try_fit with that one algorithm. *)
do_fit(algorithm, start_params, priorval, priorsigma) ==
    TryFitBegin(<<algorithm>>, start_params, priorval, priorsigma)

(* The first call on a Fitter, with priors: try_fit with its default         *)
(* algorithms, do_fit with its default algorithm, do_fit with "TNC".         *)
GivenPriorvalChoices == PriorvalChoices \ {None}

GivenPriorsigmaChoices == PriorsigmaChoices \ {None}

NextPriors ==
    \/ \E n \in 1..MaxData, f \in FuncChoices, error_strat \in ErrorStrats,
          nproc \in 1..MaxProc :
          Construct(IF error_strat = "propagation" THEN {} ELSE {"error_strat"},
                    n, n, NoEdata, f, error_strat, TRUE, nproc)
    \/ \E priorval \in GivenPriorvalChoices, priorsigma \in GivenPriorsigmaChoices :
          /\ ncalls = 0
          /\ TryFitBegin(None, None, priorval, priorsigma)
    \/ \E priorval \in GivenPriorvalChoices, priorsigma \in GivenPriorsigmaChoices :
          /\ ncalls = 0
          /\ do_fit("curve_fit", None, priorval, priorsigma)
    \/ \E priorval \in GivenPriorvalChoices, priorsigma \in GivenPriorsigmaChoices :
          /\ ncalls = 0
          /\ do_fit("TNC", None, priorval, priorsigma)
    \/ \E i \in 1..Len(rows) : tryAlgorithm(i)
    \/ TryFitSelect

SpecPriors == Init /\ [][NextPriors]_vars

(* Construction with every choice of the derivative options, and set_func   *)
(* calls on the constructed Fitter.                                          *)
UserFunctionChoices == {"None", "user"}

DerivativeKeys(use_diff, derive_chisq, usergrad, userhess) ==
    (IF use_diff THEN {} ELSE {"use_diff"})
    \cup (IF derive_chisq THEN {"derive_chisq"} ELSE {})
    \cup (IF usergrad # "None" THEN {"grad"} ELSE {})
    \cup (IF userhess # "None" THEN {"hess"} ELSE {})

NextDerivatives ==
    \/ \E f \in FuncChoices, expand \in BOOLEAN, use_diff \in BOOLEAN,
          derive_chisq \in BOOLEAN, usergrad \in UserFunctionChoices,
          userhess \in UserFunctionChoices :
          ConstructWith(DerivativeKeys(use_diff, derive_chisq, usergrad, userhess),
                        MaxData, MaxData, NoEdata, f, "propagation", expand, 1,
                        use_diff, derive_chisq, usergrad, userhess)
    \/ \E f \in FuncChoices, usergrad \in UserFunctionChoices,
          userhess \in UserFunctionChoices :
          set_func(f, usergrad, userhess)

SpecDerivatives == Init /\ [][NextDerivatives]_vars

----------------------------------------------------------------------------
(* Properties. *)

(* Attempt i returned a fit result / returned an exception. *)
Succeeded(i) == rows[i].st = "done" /\ rows[i].exc = ""

Failed(i) == rows[i].st = "done" /\ rows[i].exc # ""

Attempts == 1..Len(rows)

C2_AttemptFailureNeverAborts ==
    phase = "error" => \A i \in Attempts : ~Succeeded(i)

(* C3: when every candidate of a call has failed, the call ends in the fatal *)
(* error, returns nothing, and its report lists every attempted algorithm     *)
(* with that algorithm's failure reason.                                      *)
C3_AllFailedEnumerated ==
    (phase # "attempts" /\ Len(rows) > 0 /\ \A i \in Attempts : Failed(i)) =>
        /\ phase = "error"
        /\ err = "TBError: No algorithm converged."
        /\ ret = <<>>
        /\ Len(report) = Len(call.algorithms)
        /\ \A i \in Attempts : report[i] = <<call.algorithms[i], rows[i].exc>>

(* C3 witness: two candidates failed for different reasons. *)
C3_Witness ==
    /\ phase = "error"
    /\ Len(rows) = 2
    /\ Failed(1) /\ Failed(2)
    /\ rows[1].exc # rows[2].exc
    /\ Len(report) = 2

(* The call's prior arguments are misconfigured: one given without the       *)
(* other, or of a length that is not the parameter count.                     *)
PriorMisconfigured ==
    \/ (call.priorsigma = None) # (call.priorval = None)
    \/ /\ call.priorsigma # None
       /\ \/ Len(call.priorsigma) # _numb_params
          \/ Len(call.priorval) # _numb_params

C5_DegreesOfFreedom ==
    phase = "returned" =>
        ret[1].dof = IF call.priorsigma # None
                     THEN _numb_data
                     ELSE _numb_data - Len(ret[1].params)

(* C5 witness: a fit with a prior on each of two parameters returned. *)
C5_Witness ==
    /\ phase = "returned"
    /\ call.priorsigma # None
    /\ Len(ret[1].params) = 2
    /\ ret[1].dof = _numb_data

(* C6 as stated: no fit without priors and with data count <= parameter      *)
(* count returns.                                                             *)
C6_FatalWhenDofNotPositive ==
    phase = "returned" => ~(call.priorsigma = None /\ _numb_data <= _numb_params)

(* C6 amended: without priors, data count < parameter count never returns    *)
(* (fatal error); data count = parameter count returns NaN errors, a NaN      *)
(* covariance and an infinite chi2/dof.                                       *)
C6_FatalWhenDofNegative ==
    /\ (phase = "returned" /\ call.priorsigma = None) =>
          /\ _numb_data >= _numb_params
          /\ _numb_data = _numb_params =>
                /\ ret[1].errors.kind = "nan"
                /\ ret[1].pcov.kind = "nan"
                /\ ret[1].chidofInf
    /\ (phase = "returned" /\ ret[1].dof > 0) =>
          /\ ret[1].errors.kind = "cov"
          /\ ~ret[1].chidofInf

(* C6 witness: an attempt's getDOF ended a call with fewer data than         *)
(* parameters.                                                                *)
C6_Witness ==
    /\ phase = "error"
    /\ err = "TBError: Fewer data than fit parameters!"
    /\ call.priorsigma = None
    /\ _numb_data < _numb_params

(* A step changes the retained state. *)
SavedChanged == _saved_params' # _saved_params \/ _saved_pcov' # _saved_pcov

(* C7 as stated: within a try_fit call the retained state changes only in    *)
(* the step after all attempts have completed.                                *)
C7_SavedWrittenOnlyAfterSelection ==
    [][(ctor = "ok" /\ SavedChanged) =>
           (phase = "attempts" /\ \A i \in Attempts : rows[i].st = "done")]_vars

(* C7 amended: the retained state never changes while attempts are pending:  *)
(* _saved_params is written before dispatch and after all attempts are done,  *)
(* _saved_pcov only after all attempts are done.                              *)
C7_SavedWrittenByOrchestratorOnly ==
    [][/\ (ctor = "ok" /\ SavedChanged) =>
              \/ phase # "attempts"
              \/ \A i \in Attempts : rows[i].st = "done"
       /\ (ctor = "ok" /\ _saved_pcov' # _saved_pcov) =>
              (phase = "attempts" /\ \A i \in Attempts : rows[i].st = "done")]_vars

(* C7 witness: attempts are under way on the start vector stored before      *)
(* dispatch.                                                                  *)
C7_Witness ==
    /\ phase = "attempts"
    /\ Len(rows) = 2
    /\ rows[1].st = "pending" /\ rows[2].st = "done"
    /\ call.start_params # None
    /\ _saved_params = call.start_params
    /\ _saved_params # ones(Len(_saved_params))

(* C8: no Fitter attribute is assigned by two attempts of a call. *)
C8_NoAttributeWrittenByTwoAttempts == Cardinality(attrWriters) <= 1

(* The start vector the call's arguments name. *)
NamedStart ==
    IF call.start_params # None THEN call.start_params
    ELSE IF call.priorval # None THEN call.priorval
    ELSE call.prevBest

(* C9 as stated: a returned best is retained, and every attempt starts from  *)
(* start_params, else priorval, else the best retained from the call before.  *)
C9_StartIsNamedStart ==
    /\ phase = "returned" => _saved_params = ret[1].params
    /\ NamedStart # None =>
          \A i \in Attempts : rows[i].st = "done" => rows[i].start = NamedStart

(* C9 amended: as stated, except that a supplied vector with a NaN or Inf    *)
(* entry is replaced by the all-ones vector.                                  *)
C9_StartIsNamedStartUnlessNaN ==
    /\ phase = "returned" => _saved_params = ret[1].params
    /\ NamedStart # None =>
          \A i \in Attempts : rows[i].st = "done" =>
              IF HasNaN(NamedStart)
              THEN \A k \in 1..Len(rows[i].start) : rows[i].start[k] = "1"
              ELSE rows[i].start = NamedStart

(* C9 witness: the second call names no start and its attempt starts from    *)
(* the best of the first.                                                     *)
C9_Witness ==
    /\ ncalls = 2
    /\ call.start_params = None /\ call.priorval = None
    /\ call.prevBest # None
    /\ \E i \in Attempts : rows[i].st = "done" /\ rows[i].start = call.prevBest
    /\ \E k \in 1..Len(call.prevBest) : call.prevBest[k] # "1"

(* C10: a Fitter given a keyword outside the allowed set is not constructed: *)
(* __init__ ends in the error with no data stored and the function not        *)
(* evaluated.                                                                 *)
C10_IllegalKeywordRejectedFirst ==
    (ctor # "no" /\ ~(kwargs \subseteq _allowed_keys)) =>
        /\ ctor = "error"
        /\ err = "TBError: Illegal argument(s) to fitter"
        /\ ~stored
        /\ funcCalls = 0

(* C10 witness: func_sup_numpy was given. *)
C10_Witness ==
    /\ ctor = "error"
    /\ "func_sup_numpy" \in kwargs
    /\ ~stored

(* C11: every successfully constructed Fitter has as many independent        *)
(* samples as dependent samples, and a data covariance matrix of that        *)
(* dimension; inputs of other shapes are rejected by __init__.               *)
C11_ShapesValidated ==
    ctor = "ok" => /\ _xdata = _numb_data
                   /\ _cov = <<_numb_data, _numb_data>>

----------------------------------------------------------------------------
(* The statistics functions of latqcdtools/statistics/statistics.py.  A     *)
(* float is an exact rational <<numerator, denominator>> in lowest terms,   *)
(* or NaN; rounding is not modelled.  A time series is a Python list of     *)
(* numbers and xhat, when given, a Python float.                            *)

Abs(n) == IF n < 0 THEN -n ELSE n

RECURSIVE GCD(_, _)
GCD(a, b) == IF b = 0 THEN a ELSE GCD(b, a % b)

(* The result of a numpy division by zero (nan or inf): not a number. *)
NaN == <<0, 0>>

IsNaN(a) == a[2] = 0

Frac(n, d) ==
    IF d = 0 THEN NaN
    ELSE LET g == GCD(Abs(n), Abs(d))
             sgn == IF d < 0 THEN -1 ELSE 1
         IN  <<(sgn * n) \div g, (sgn * d) \div g>>

FracAdd(a, b) ==
    IF IsNaN(a) \/ IsNaN(b) THEN NaN
    ELSE LET g == GCD(a[2], b[2])
         IN  Frac(a[1] * (b[2] \div g) + b[1] * (a[2] \div g), (a[2] \div g) * b[2])

FracNeg(a) == <<-a[1], a[2]>>

FracSub(a, b) == FracAdd(a, FracNeg(b))

FracMul(a, b) ==
    IF IsNaN(a) \/ IsNaN(b) THEN NaN
    ELSE LET g == GCD(Abs(a[1]), b[2])
             h == GCD(Abs(b[1]), a[2])
         IN  Frac((a[1] \div g) * (b[1] \div h), (a[2] \div h) * (b[2] \div g))

(* a / b in numpy arithmetic: a division by zero gives nan or inf, no error. *)
FracDiv(a, b) ==
    IF IsNaN(a) \/ IsNaN(b) \/ b[1] = 0 THEN NaN
    ELSE FracMul(a, <<b[2], b[1]>>)

(* a < b: False when either is NaN. *)
FracLess(a, b) == ~IsNaN(a) /\ ~IsNaN(b) /\ a[1] * b[2] < b[1] * a[2]

FracAbs(a) == <<Abs(a[1]), a[2]>>

Num(i) == <<i, 1>>

(* np.sum *)
RECURSIVE SumTo(_, _)
SumTo(x, n) == IF n = 0 THEN Num(0) ELSE FracAdd(SumTo(x, n - 1), x[n])

Sum(x) == SumTo(x, Len(x))

(* What a call does: return a value, end in logger.TBError, or raise. *)
Value(v) == [kind |-> "value", val |-> v]

TBError(message) == [kind |-> "TBError", val |-> message]

Raised(exception) == [kind |-> "raised", val |-> exception]

(* xhat as passed: absent (None), or the given value. *)
Absent == <<>>

Given(x) == <<x>>

(* std_mean(ts) = np.mean(ts) *)
std_mean(data) == FracMul(Sum(data), Frac(1, Len(data)))

(* jackknifeFrom(x): xj = 1.0/(ndat-1.0)*(np.sum(x)-x) *)
jackknifeFromSelfIncluded(x) ==
    LET ndat == Len(x)
    IN  IF ndat < 2 THEN TBError("Need n>1.")
        ELSE Value([i \in 1..ndat |-> FracMul(Frac(1, ndat - 1), Sum(x))])

jackknifeFrom(x) ==
    LET ndat == Len(x)
    IN  IF ndat < 2 THEN TBError("Need n>1.")
        ELSE Value([i \in 1..ndat |->
                       FracMul(Frac(1, ndat - 1), FracSub(Sum(x), x[i]))])

(* ts[i] - x for every element, x the sample mean or xhat. *)
Deviations(ts, xhat) ==
    LET x == IF xhat = Absent THEN std_mean(ts) ELSE xhat[1]
    IN  [i \in 1..Len(ts) |-> FracSub(ts[i], x)]

(* Sum of dev[i]*dev[i+it] over the 0-based indices i1..i2 of the code. *)
RECURSIVE PairSum(_, _, _, _)
PairSum(dev, it, i1, i2) ==
    IF i2 < i1 THEN Num(0)
    ELSE FracAdd(PairSum(dev, it, i1, i2 - 1), FracMul(dev[i2 + 1], dev[i2 + 1 + it]))

(* The bias correction c_it*ndat/(ndat-1.), applied when xhat is None. *)
BiasCorrected(c, ndat, xhat) ==
    IF xhat = Absent THEN FracMul(c, Frac(ndat, ndat - 1)) ELSE c

(* acov[it] of tauint *)
acov(ts, xhat, it) ==
    LET ndat == Len(ts)
        numt == ndat - it
        c_it == FracMul(PairSum(Deviations(ts, xhat), it, 0, numt - 1), Frac(1, numt))
    IN  BiasCorrected(c_it, ndat, xhat)

(* acint of tauint up to lag t: acint[it-1] + 2.*acov[it]/acov[0] *)
RECURSIVE acint(_, _, _)
acint(ts, xhat, t) ==
    IF t = 0 THEN <<Num(1)>>
    ELSE LET prev == acint(ts, xhat, t - 1)
         IN  Append(prev, FracAdd(prev[t],
                        FracDiv(FracMul(Num(2), acov(ts, xhat, t)), acov(ts, xhat, 0))))

(* if nt>=ndat *)
LagTooLargeOffByOne(nt, ndat) == nt > ndat

LagTooLarge(nt, ndat) == nt >= ndat

(* tauint(nt, ts, xhat).  With xhat given, ts[i] - x and all that follows   *)
(* are Python floats, and the division by a zero acov[0] raises; with the   *)
(* sample mean (np.float64) it gives nan.                                   *)
tauint(nt, ts, xhat) ==
    LET ndat == Len(ts)
    IN  IF ndat < 2 THEN TBError("Need ndat>1.")
        ELSE IF LagTooLarge(nt, ndat) THEN TBError("Need nt>ndat.")
        ELSE IF xhat # Absent /\ nt >= 1 /\ acov(ts, xhat, 0)[1] = 0
        THEN Raised("ZeroDivisionError")
        ELSE Value(acint(ts, xhat, nt))

(* binsize = int(numt/nbins) and itmax = nbins*binsize - binsize at lag it. *)
binsize(ndat, nbins, it) == (ndat - it) \div nbins

itmaxOneBinMore(ndat, nbins, it) == nbins * binsize(ndat, nbins, it)

itmaxUnchecked(ndat, nbins, it) == it + 1

itmax(ndat, nbins, it) ==
    nbins * binsize(ndat, nbins, it) - binsize(ndat, nbins, it)

(* The indices i of block ibin (counted from 0, as in the source):           *)
(* range(i1, i2+1) with i1 = ibin*binsize, i2 = (ibin+1)*binsize-1.          *)
Block(bs, ibin) == (ibin * bs)..((ibin + 1) * bs - 1)

(* The indices of ts read at lag it: ts[i] and ts[i+it] for i in each block. *)
IndicesRead(ndat, nbins, it) ==
    UNION {{i, i + it} : i \in UNION {Block(binsize(ndat, nbins, it), ibin) :
                                         ibin \in 0..(nbins - 1)}}

(* acorj[it] of tauintj: the jackknife of the nbins block averages. *)
acorj(ts, xhat, nbins, it) ==
    LET ndat == Len(ts)
        bs == binsize(ndat, nbins, it)
        dev == Deviations(ts, xhat)
        acor == [ibin \in 1..nbins |->
                    BiasCorrected(FracMul(PairSum(dev, it, (ibin - 1) * bs, ibin * bs - 1),
                                          Frac(1, bs)),
                                  ndat, xhat)]
    IN  jackknifeFrom(acor).val

(* acintj of tauintj up to lag t; the rows are numpy values, so a division  *)
(* by zero gives nan.                                                       *)
RECURSIVE acintj(_, _, _, _)
acintj(ts, xhat, nbins, t) ==
    IF t = 0 THEN <<[ibin \in 1..nbins |-> Num(1)]>>
    ELSE LET prev == acintj(ts, xhat, nbins, t - 1)
             top == acorj(ts, xhat, nbins, t)
             bottom == acorj(ts, xhat, nbins, 0)
         IN  Append(prev, [ibin \in 1..nbins |->
                 FracAdd(prev[t][ibin],
                         FracDiv(FracMul(Num(2), top[ibin]), bottom[ibin]))])

(* tauintj(nt, nbins, ts, xhat) *)
tauintj(nt, nbins, ts, xhat) ==
    LET ndat == Len(ts)
    IN  IF ndat < 2 THEN TBError("Need ndat>1.")
        ELSE IF nbins < 2 THEN TBError("Need nbins>1.")
        ELSE IF \E it \in 0..nt : it >= itmax(ndat, nbins, it) THEN TBError("it>=itmax.")
        ELSE Value(acintj(ts, xhat, nbins, nt))

(* np.sqrt(a), kept as the term. *)
Sqrt(a) == <<"sqrt", a>>

(* The sum of (x[i] - mean)**2 *)
SumSq(data) ==
    LET mean == std_mean(data)
        d == [i \in 1..Len(data) |-> FracSub(data[i], mean)]
    IN  Sum([i \in 1..Len(data) |-> FracMul(d[i], d[i])])

(* jack_mean_and_err(data) *)
jack_mean_and_err(data) ==
    LET n == Len(data)
    IN  [mean |-> std_mean(data),
         err |-> Sqrt(FracMul(Num(n - 1), FracMul(SumSq(data), Frac(1, n))))]

(* np.var(data, ddof = 1) and np.std(data, ddof = 1) behind reduce_tuple,   *)
(* which reads data[0]; numpy divides by n - 1 without raising.             *)
std_var(data) ==
    IF Len(data) = 0 THEN Raised("IndexError")
    ELSE Value(FracMul(SumSq(data), Frac(1, Len(data) - 1)))

std_dev(data) ==
    IF Len(data) = 0 THEN Raised("IndexError")
    ELSE Value(Sqrt(FracMul(SumSq(data), Frac(1, Len(data) - 1))))

(* The scan of getTauInt over the lags up to it: the values it holds after  *)
(* the iteration of lag it.                                                 *)
RECURSIVE Scan(_, _, _, _)
ScanPastDecrease(acint_, acintj_, nbins, it) ==
    IF it < 0
    THEN [lmonoton |-> TRUE, tau_int |-> Num(0), tau_inte |-> Num(-1),
          tau_intbias |-> Num(-1), itpick |-> -1]
    ELSE LET before == Scan(acint_, acintj_, nbins, it - 1)
             jk == jack_mean_and_err(acintj_[it + 1])
             acbias == FracMul(Num(nbins - 1), FracAbs(FracSub(acint_[it + 1], jk.mean)))
         IN  IF ~FracLess(acint_[it + 1], before.tau_int)
             THEN [lmonoton |-> TRUE, tau_int |-> acint_[it + 1], tau_inte |-> jk.err,
                   tau_intbias |-> acbias, itpick |-> it]
             ELSE [before EXCEPT !.lmonoton = FALSE]

Scan(acint_, acintj_, nbins, it) ==
    IF it < 0
    THEN [lmonoton |-> TRUE, tau_int |-> Num(0), tau_inte |-> Num(-1),
          tau_intbias |-> Num(-1), itpick |-> -1]
    ELSE LET before == Scan(acint_, acintj_, nbins, it - 1)
             jk == jack_mean_and_err(acintj_[it + 1])
             acbias == FracMul(Num(nbins - 1), FracAbs(FracSub(acint_[it + 1], jk.mean)))
         IN  IF ~before.lmonoton THEN before
             ELSE IF ~FracLess(acint_[it + 1], before.tau_int)
             THEN [lmonoton |-> TRUE, tau_int |-> acint_[it + 1], tau_inte |-> jk.err,
                   tau_intbias |-> acbias, itpick |-> it]
             ELSE [before EXCEPT !.lmonoton = FALSE]

(* getTauInt(ts, nbins, tpickMax): tau_int, tau_inte, tau_intbias, itpick *)
getTauInt(ts, nbins, tpickMax) ==
    LET a == tauint(tpickMax, ts, Absent)
        aj == tauintj(tpickMax, nbins, ts, Absent)
        end == Scan(a.val, aj.val, nbins, tpickMax)
    IN  IF a.kind # "value" THEN a
        ELSE IF aj.kind # "value" THEN aj
        ELSE Value(<<end.tau_int, end.tau_inte, end.tau_intbias, end.itpick>>)

(* The inputs of the statistics functions. *)
MaxSeries == 6      \* length of a time series: 0..MaxSeries
Samples == {0, 1}   \* the values a sample takes
MaxLag == 2         \* nt, tpickMax: 0..MaxLag
MaxBins == 4        \* nbins: 0..MaxBins

Series == UNION {[1..n -> {Num(v) : v \in Samples}] : n \in 0..MaxSeries}

XhatChoices == {Absent} \cup {Given(Num(v)) : v \in Samples}

(* A call of a statistics function, from the state where none was made. *)
Call(name, args, outcome, lines) ==
    /\ called = <<>>
    /\ called' = [name |-> name, args |-> args]
    /\ returned' = outcome
    /\ acoutfile' = lines
    /\ UNCHANGED <<fitterVars, chisquareVars, hrgVars>>

Call_std_var(data) == Call("std_var", [data |-> data], std_var(data), <<>>)

Call_std_dev(data) == Call("std_dev", [data |-> data], std_dev(data), <<>>)

Call_jackknifeFrom(x) == Call("jackknifeFrom", [x |-> x], jackknifeFrom(x), <<>>)

Call_tauint(nt, ts, xhat) ==
    Call("tauint", [nt |-> nt, ts |-> ts, xhat |-> xhat], tauint(nt, ts, xhat), <<>>)

Call_tauintj(nt, nbins, ts, xhat) ==
    Call("tauintj", [nt |-> nt, nbins |-> nbins, ts |-> ts, xhat |-> xhat],
         tauintj(nt, nbins, ts, xhat), <<>>)

(* getTauInt writes one line per lag once tauint and tauintj have returned. *)
Call_getTauInt(ts, nbins, tpickMax) ==
    LET out == getTauInt(ts, nbins, tpickMax)
    IN  Call("getTauInt", [ts |-> ts, nbins |-> nbins, tpickMax |-> tpickMax], out,
             IF out.kind = "value" THEN [i \in 1..(tpickMax + 1) |-> i - 1] ELSE <<>>)

NextEstimators ==
    \/ \E data \in Series : Call_std_var(data)
    \/ \E data \in Series : Call_std_dev(data)
    \/ \E x \in Series : Call_jackknifeFrom(x)
    \/ \E nt \in 0..MaxLag, ts \in Series, xhat \in XhatChoices : Call_tauint(nt, ts, xhat)
    \/ \E nt \in 0..MaxLag, nbins \in 0..MaxBins, ts \in Series, xhat \in XhatChoices :
          Call_tauintj(nt, nbins, ts, xhat)
    \/ \E ts \in Series, nbins \in 0..MaxBins, tpickMax \in 0..MaxLag :
          Call_getTauInt(ts, nbins, tpickMax)

SpecEstimators == Init /\ [][NextEstimators]_vars

(* The call made is a call of this function that returned a value. *)
ReturnedFrom(name) ==
    called # <<>> /\ called.name = name /\ returned.kind = "value"

(* The lags k in 1..nt at which the estimate a (a[k+1] is lag k) decreased. *)
Decreases(a, nt) == {k \in 1..nt : FracLess(a[k + 1], a[k])}

(* C12: getTauInt returns itpick = k-1 for the smallest lag k at which      *)
(* acint decreased (tpickMax if it never did), with tau_int = acint[itpick] *)
(* and the jackknife error and the bias computed at that same lag; what     *)
(* acint does after the first decrease, and equal consecutive values, do    *)
(* not change the result.                                                   *)
C12_PickBeforeFirstDecrease ==
    ReturnedFrom("getTauInt") =>
        LET ts == called.args.ts
            nbins == called.args.nbins
            tpickMax == called.args.tpickMax
            a == tauint(tpickMax, ts, Absent).val
            aj == tauintj(tpickMax, nbins, ts, Absent).val
            K == Decreases(a, tpickMax)
            pick == IF K = {} THEN tpickMax
                    ELSE (CHOOSE k \in K : \A j \in K : k <= j) - 1
            jk == jack_mean_and_err(aj[pick + 1])
        IN  /\ returned.val[4] = pick
            /\ returned.val[1] = a[pick + 1]
            /\ returned.val[2] = jk.err
            /\ returned.val[3] =
                  FracMul(Num(nbins - 1), FracAbs(FracSub(a[pick + 1], jk.mean)))

(* C12 witness: getTauInt returned for a series whose estimate decreases at *)
(* lag 1 and is back at its lag-0 value or above at lag 2; the pick is 0.   *)
C12_Witness ==
    /\ ReturnedFrom("getTauInt")
    /\ called.args.tpickMax >= 2
    /\ LET a == tauint(called.args.tpickMax, called.args.ts, Absent).val
       IN  /\ FracLess(a[2], a[1])
           /\ ~FracLess(a[3], a[1])
           /\ returned.val[4] = 0

(* The other case of C12: two equal consecutive values, neither NaN, at or  *)
(* before the pick.                                                         *)
C12_EqualValuesPassed ==
    /\ ReturnedFrom("getTauInt")
    /\ LET a == tauint(called.args.tpickMax, called.args.ts, Absent).val
       IN  \E k \in 1..called.args.tpickMax :
              a[k + 1] = a[k] /\ ~IsNaN(a[k]) /\ returned.val[4] >= k

(* The call made is a call of this function. *)
Called(name) == called # <<>> /\ called.name = name

(* C13: for ndat >= 2 and 0 <= nt < ndat, tauint returns a list of nt+1     *)
(* values, the first exactly 1, each later one its predecessor plus         *)
(* 2*acov[t]/acov[0].                                                       *)
C13_TauintRecurrence ==
    (Called("tauint") /\ Len(called.args.ts) >= 2
                      /\ called.args.nt < Len(called.args.ts)) =>
        LET ts == called.args.ts
            xhat == called.args.xhat
        IN  /\ returned.kind = "value"
            /\ Len(returned.val) = called.args.nt + 1
            /\ returned.val[1] = Num(1)
            /\ \A t \in 1..called.args.nt :
                  returned.val[t + 1] =
                      FracAdd(returned.val[t],
                              FracDiv(FracMul(Num(2), acov(ts, xhat, t)), acov(ts, xhat, 0)))

(* The statement of C13 for the series whose lag-0 autocovariance is not    *)
(* zero, and for nt = 0.                                                    *)
TauintRecurrenceOffZeroVariance ==
    (Called("tauint") /\ (called.args.nt = 0 \/
                          acov(called.args.ts, called.args.xhat, 0)[1] # 0))
        => C13_TauintRecurrence

(* C14: tauint ends in a fatal error whenever nt >= ndat, and for such nt   *)
(* neither tauintj nor getTauInt returns a result.                          *)
C14_LagNotBelowSampleCountIsFatal ==
    /\ (Called("tauint") /\ called.args.nt >= Len(called.args.ts))
          => returned.kind = "TBError"
    /\ (Called("tauintj") /\ called.args.nt >= Len(called.args.ts))
          => returned.kind # "value"
    /\ (Called("getTauInt") /\ called.args.tpickMax >= Len(called.args.ts))
          => returned.kind # "value" /\ acoutfile = <<>>

(* C14 witness: tauint was called with nt equal to the length of a series   *)
(* of two or more samples, and ended in the fatal error.                    *)
C14_Witness ==
    /\ Called("tauint")
    /\ Len(called.args.ts) >= 2
    /\ called.args.nt = Len(called.args.ts)
    /\ returned = TBError("Need nt>ndat.")

(* C15: tauintj ends in a fatal error whenever some lag it <= nt has        *)
(* it >= nbins*b - b, b = floor((ndat-it)/nbins); otherwise it returns nt+1 *)
(* rows of nbins values.                                                    *)
C15_JackknifeBlocks ==
    (Called("tauintj") /\ called.args.nbins >= 1) =>
        LET ndat == Len(called.args.ts)
            nbins == called.args.nbins
            nt == called.args.nt
            spills == \E it \in 0..nt :
                         it >= nbins * ((ndat - it) \div nbins) - ((ndat - it) \div nbins)
        IN  IF spills THEN returned.kind = "TBError"
            ELSE /\ returned.kind = "value"
                 /\ Len(returned.val) = nt + 1
                 /\ \A r \in 1..(nt + 1) : Len(returned.val[r]) = nbins

(* C15 witness: with two or more samples and bins and nt < ndat, tauintj    *)
(* ended in the fatal error of the block check at a lag above 0.            *)
C15_Witness ==
    /\ Called("tauintj")
    /\ called.args.nbins >= 2
    /\ called.args.nt < Len(called.args.ts)
    /\ 0 < itmax(Len(called.args.ts), called.args.nbins, 0)
    /\ returned = TBError("it>=itmax.")

(* The sum of the elements of x other than x[i]. *)
RECURSIVE SumExcept(_, _, _)
SumExcept(x, i, n) ==
    IF n = 0 THEN Num(0)
    ELSE IF n = i THEN SumExcept(x, i, n - 1)
    ELSE FracAdd(SumExcept(x, i, n - 1), x[n])

SamplesGiven ==
    IF called.name \in {"std_var", "std_dev"} THEN called.args.data
    ELSE IF called.name = "jackknifeFrom" THEN called.args.x
    ELSE called.args.ts

(* C17: std_var, std_dev, jackknifeFrom, tauint and tauintj signal an       *)
(* error, and return no value, when given fewer than 2 samples.             *)
C17_FewerThanTwoSamplesIsFatal ==
    (called # <<>> /\ called.name # "getTauInt" /\ Len(SamplesGiven) < 2)
        => returned.kind # "value"

----------------------------------------------------------------------------
(* The chi-square methods of the Fitter and the arrays they cache.  A       *)
(* parameter token "0".."4" stands for that number.  The arrays of the fit  *)
(* function, its gradient and its Hessian at a parameter vector are terms   *)
(* naming the function and the vector; the data part of a derivative of     *)
(* the chi-square is an input.                                              *)

MaxQueries == 2     \* calls of the chi-square methods per Fitter

Val(token) ==
    CASE token = "0" -> 0 [] token = "1" -> 1 [] token = "2" -> 2
      [] token = "3" -> 3 [] token = "4" -> 4

(* self.wrap_func / self.grad / self.hess evaluated on self._xdata at params *)
ArrayOf(user, params) == <<user, params>>

(* numpy broadcasting of vectors to length m: a vector of one element      *)
(* stands for m copies of it, any other length but m is a ValueError.       *)
Broadcastable(lengths, m) == \A l \in lengths : l \in {1, m}

Bcast(v, i) == IF Len(v) = 1 THEN v[1] ELSE v[i]

Longest(lengths) == CHOOSE m \in lengths : \A l \in lengths : l <= m

(* np.sum(2*(np.array(params) - self._priorval)/self._priorsigma**2), the   *)
(* sum of the first n of the broadcast terms.                               *)
RECURSIVE PriorGradSum(_, _, _, _)
PriorGradSum(params, priorval, priorsigma, n) ==
    IF n = 0 THEN Num(0)
    ELSE FracAdd(PriorGradSum(params, priorval, priorsigma, n - 1),
                 Frac(2 * (Val(Bcast(params, n)) - Val(Bcast(priorval, n))),
                      Val(Bcast(priorsigma, n)) * Val(Bcast(priorsigma, n))))

(* np.sum(2/self._priorsigma**2) *)
RECURSIVE PriorHessSum(_, _)
PriorHessSum(priorsigma, n) ==
    IF n = 0 THEN Num(0)
    ELSE FracAdd(PriorHessSum(priorsigma, n - 1),
                 Frac(2, Val(priorsigma[n]) * Val(priorsigma[n])))

(* A call of a chi-square method (data: the data part of its result, None  *)
(* if it has none): it evaluates the user functions named,    *)
(* stores each array and its parameter vector, and returns val.             *)
Query(name, params, data, users, val) ==
    /\ ctor = "ok"
    /\ query.seq < MaxQueries
    /\ Len(params) = _numb_params
    /\ query' = [seq |-> query.seq + 1, name |-> name, params |-> params, data |-> data]
    /\ answer' = [val |-> val, evaluated |-> users]
    /\ IF "func" \in users
       THEN _cache_array' = ArrayOf("func", params) /\ _cache_p_array' = params
       ELSE UNCHANGED <<_cache_array, _cache_p_array>>
    /\ IF "grad" \in users
       THEN _cache_jac' = ArrayOf("grad", params) /\ _cache_p_jac' = params
       ELSE UNCHANGED <<_cache_jac, _cache_p_jac>>
    /\ IF "hess" \in users
       THEN _cache_hess' = ArrayOf("hess", params) /\ _cache_p_hess' = params
       ELSE UNCHANGED <<_cache_hess, _cache_p_hess>>
    /\ UNCHANGED <<fitterVars, estimatorVars, hrgVars>>

fit_ansatz_array(params) ==
    Query("fit_ansatz_array", params, None, {"func"}, ArrayOf("func", params))

jacobian_fit_ansatz_array(params) ==
    Query("jacobian_fit_ansatz_array", params, None, {"grad"}, ArrayOf("grad", params))

hess_fit_ansatz_array(params) ==
    Query("hess_fit_ansatz_array", params, None, {"hess"}, ArrayOf("hess", params))

(* grad_chisquare(params); data is 2*jac.dot(self._fit_inv_cor.dot(diff)),  *)
(* one number per parameter.  The prior sum is a scalar, which numpy adds   *)
(* to every component.                                                      *)
grad_chisquare(params, data) ==
    LET n == Len(params)
        lengths == {n, Len(_priorval), Len(_priorsigma)}
        prior == PriorGradSum(params, _priorval, _priorsigma, Longest(lengths))
        res == IF ~_checkprior THEN data
               ELSE IF ~Broadcastable(lengths, Longest(lengths)) THEN <<"ValueError">>
               ELSE [i \in 1..n |-> FracAdd(data[i], prior)]
    IN  Query("grad_chisquare", params, data, {"grad", "func"}, res)

(* hess_chisquare(params); data is the matrix of line 415.  The prior sum   *)
(* is a scalar, which numpy adds to every entry.                            *)
hess_chisquare(params, data) ==
    LET n == Len(params)
        prior == PriorHessSum(_priorsigma, Len(_priorsigma))
        res == IF _checkprior
               THEN [i \in 1..n |-> [j \in 1..n |-> FracAdd(data[i][j], prior)]]
               ELSE data
    IN  Query("hess_chisquare", params, data, {"hess", "grad", "func"}, res)

(* The inputs. *)
QueryParams(n) ==
    {Const("3", n), Const("4", n), [i \in 1..n |-> IF i = 1 THEN "4" ELSE "3"]}

DataTerms == {0, 1}

DataGrad(n, v) == [i \in 1..n |-> Num(v * i)]

DataHess(n, v) == [i \in 1..n |-> [j \in 1..n |-> Num(v * (i + j))]]

SigmaChoices == {None} \cup UNION {[1..n -> {"1", "2"}] : n \in 1..MaxParams}

NextChisquare ==
    \/ \E f \in FuncChoices, expand \in BOOLEAN :
          Construct({}, MaxData, MaxData, NoEdata, f, "propagation", expand, 1)
    \/ \E priorval \in PriorvalChoices, priorsigma \in SigmaChoices :
          /\ ncalls = 0
          /\ query.seq = 0
          /\ TryFitBegin(<<"TNC">>, None, priorval, priorsigma)
    \/ \E params \in QueryParams(_numb_params) : fit_ansatz_array(params)
    \/ \E params \in QueryParams(_numb_params) : jacobian_fit_ansatz_array(params)
    \/ \E params \in QueryParams(_numb_params) : hess_fit_ansatz_array(params)
    \/ \E params \in QueryParams(_numb_params), v \in DataTerms :
          grad_chisquare(params, DataGrad(_numb_params, v))
    \/ \E params \in QueryParams(_numb_params), v \in DataTerms :
          hess_chisquare(params, DataHess(_numb_params, v))

SpecChisquare == Init /\ [][NextChisquare]_vars

(* The user functions a method asks the arrays of, and the key each array   *)
(* is cached under.                                                         *)
Asks(name) ==
    CASE name = "fit_ansatz_array" -> {"func"}
      [] name = "jacobian_fit_ansatz_array" -> {"grad"}
      [] name = "hess_fit_ansatz_array" -> {"hess"}
      [] name = "grad_chisquare" -> {"grad", "func"}
      [] name = "hess_chisquare" -> {"hess", "grad", "func"}
      [] OTHER -> {}

CacheKey(user) ==
    CASE user = "func" -> _cache_p_array
      [] user = "grad" -> _cache_p_jac
      [] user = "hess" -> _cache_p_hess

CachedArray(user) ==
    CASE user = "func" -> _cache_array
      [] user = "grad" -> _cache_jac
      [] user = "hess" -> _cache_hess

(* Every cached array is the array at its cached key. *)
CacheIsValueAtKey ==
    \A user \in {"func", "grad", "hess"} :
        CacheKey(user) # None => CachedArray(user) = ArrayOf(user, CacheKey(user))

(* C18: a method asked for an array at the parameter vector that is the     *)
(* cached key does not evaluate the user function again, and after every    *)
(* call each cached array is the array at its cached key.                   *)
C18_CachedKeyNotReevaluated ==
    [][/\ query'.seq > query.seq =>
             \A user \in Asks(query'.name) :
                 query'.params = CacheKey(user) => user \notin answer'.evaluated
       /\ CacheIsValueAtKey']_vars

(* Priors are active, one mean and one sigma per parameter of the call. *)
PriorsActiveOn(name) ==
    /\ query.name = name
    /\ _checkprior
    /\ Len(_priorval) = Len(query.params)
    /\ Len(_priorsigma) = Len(query.params)

(* C19: with priors active, component i of the gradient of the chi-square   *)
(* is the data term plus 2*(param_i - prior_mean_i)/prior_sigma_i^2.        *)
C19_PriorGradientPerParameter ==
    PriorsActiveOn("grad_chisquare") =>
        \A i \in 1..Len(query.params) :
            answer.val[i] =
                FracAdd(query.data[i],
                        Frac(2 * (Val(query.params[i]) - Val(_priorval[i])),
                             Val(_priorsigma[i]) * Val(_priorsigma[i])))

(* C20: with priors active, the Hessian of the chi-square is the data term  *)
(* plus 2/prior_sigma_i^2 on the diagonal entry (i,i) and nothing off the   *)
(* diagonal.                                                                *)
C20_PriorCurvatureOnDiagonal ==
    PriorsActiveOn("hess_chisquare") =>
        \A i, j \in 1..Len(query.params) :
            answer.val[i][j] =
                FracAdd(query.data[i][j],
                        IF i = j THEN Frac(2, Val(_priorsigma[i]) * Val(_priorsigma[i]))
                        ELSE Num(0))

(* The statements of C19 and C20 for one parameter. *)
PriorTermsRightForOneParameter ==
    Len(query.params) = 1 => C19_PriorGradientPerParameter /\ C20_PriorCurvatureOnDiagonal

----------------------------------------------------------------------------
(* Parameter-count probing. *)

(* The sizes among the ntries probed ones at which the function evaluates. *)
AcceptedSizes(f) == {n \in 1..ntries : Accepts(f, ones(n))}

SmallestAccepted(f) == CHOOSE n \in AcceptedSizes(f) : \A m \in AcceptedSizes(f) : n <= m

(* C23: for a packed function construction makes at most ntries probes and    *)
(* sets the parameter count to the smallest size in 1..ntries at which the    *)
(* function evaluates, or ends in the fatal error if there is none; a start   *)
(* vector the function rejects is replaced by the all-ones vector of that     *)
(* size; in expand mode the count is the signature's, with no probe.          *)
C23_ProbingFindsSmallestSize ==
    /\ stored /\ ncalls = 0 /\ _expand =>
          /\ funcCalls = 1
          /\ _numb_params = func.hi
    /\ stored /\ ncalls = 0 /\ ~_expand =>
          /\ funcCalls <= ntries + 1
          /\ IF AcceptedSizes(func) = {}
             THEN /\ ctor = "error"
                  /\ err = "TBError: Fit function does not work"
                  /\ funcCalls = ntries
             ELSE /\ ctor = "ok"
                  /\ _numb_params = SmallestAccepted(func)
                  /\ funcCalls = SmallestAccepted(func) + 1
    /\ ctor = "ok" /\ ~_expand /\ phase = "error" =>
          /\ _saved_params = ones(SmallestAccepted(func))
          /\ _numb_params = SmallestAccepted(func)

(* C23 witness: a packed function that evaluates only at the last probed     *)
(* size was constructed with that parameter count.                           *)
C23_Witness ==
    /\ ctor = "ok"
    /\ ~_expand
    /\ func.lo = ntries
    /\ _numb_params = ntries
    /\ funcCalls = ntries + 1

(* A packed function that evaluates at none of the probed sizes ended the    *)
(* construction.                                                             *)
C23_NoSizeWorks ==
    /\ ctor = "error"
    /\ ~_expand
    /\ func.lo = ntries + 1

----------------------------------------------------------------------------
(* curve_fit and priors. *)

CurveFitFatal == "TBError: The curve_fit algorithm is not yet able to handle priors."

(* The algorithms of the call, as a set. *)
AlgorithmsOfCall == {call.algorithms[i] : i \in 1..Len(call.algorithms)}

C26_PriorFitWithoutCurveFitReturns ==
    /\ _checkprior
    /\ call.algorithms = <<"TNC">>
    /\ phase = "returned"

(* do_fit with its default algorithm and priors ended in the fatal error. *)
C26_DoFitDefault ==
    /\ _checkprior
    /\ call.algorithms = <<"curve_fit">>
    /\ phase = "error"
    /\ err = CurveFitFatal

----------------------------------------------------------------------------
(* The retained parameters. *)

(* A try_fit call has ended, by returning or in an error. *)
CallEnded == ncalls > 0 /\ phase \in {"returned", "error"}

(* C27: after every try_fit call, returned or ended in an error,             *)
(* _saved_params has no NaN or Inf entry, and no attempt's row of results    *)
(* and no returned tuple carries parameters with such an entry.              *)
C27_SavedParamsFinite ==
    /\ CallEnded => ~HasNaN(_saved_params)
    /\ \A i \in Attempts : Succeeded(i) => ~HasNaN(rows[i].params)
    /\ phase = "returned" => ~HasNaN(ret[1].params) /\ _saved_params = ret[1].params

(* C27 witness: a call given a NaN start vector ended with every attempt     *)
(* failed, and the retained vector is the all-ones default.                  *)
C27_Witness ==
    /\ CallEnded
    /\ call.start_params # None
    /\ HasNaN(call.start_params)
    /\ err = "TBError: No algorithm converged."
    /\ _saved_params = ones(Len(call.start_params))

(* A call given a start vector the function rejects ended with the all-ones  *)
(* default retained.                                                         *)
C27_RejectedStartReset ==
    /\ CallEnded
    /\ call.start_params # None
    /\ ~Accepts(func, call.start_params)
    /\ err = "Exception: function cannot handle start_parameters"
    /\ _saved_params = ones(_numb_params)

----------------------------------------------------------------------------
(* Prior activation. *)

(* The call has dispatched its attempts. *)
Dispatched == ncalls > 0 /\ (phase \in {"attempts", "returned"} \/ rows # <<>>)

(* C29: in every call that has dispatched its attempts priors are active     *)
(* exactly when the call gave priorsigma (and priorval), whatever the call   *)
(* before did; a call without them hands no prior to the chi-square and its  *)
(* returned degrees of freedom are data count minus parameter count.         *)
C29_PriorsDecidedPerCall ==
    /\ Dispatched => (_checkprior <=> call.priorsigma # None)
    /\ Dispatched /\ call.priorsigma = None =>
          calc_chisquare_prior(_checkprior, _priorval, _priorsigma) = <<None, None>>
    /\ phase = "returned" /\ call.priorsigma = None =>
          ret[1].dof = _numb_data - Len(ret[1].params)

(* C29 witness: a call without priors, made when priors were active from    *)
(* the call before, has returned.                                            *)
C29_Witness ==
    /\ ncalls = 2
    /\ call.prevCheckprior
    /\ call.priorval = None /\ call.priorsigma = None
    /\ phase = "returned"
    /\ ret[1].dof = _numb_data - Len(ret[1].params)
    /\ ret[1].dof < _numb_data

----------------------------------------------------------------------------
(* The blocks of tauintj. *)

(* C28: in a call of tauintj on ndat >= 2 samples with nbins >= 2, at every  *)
(* lag it <= nt that passes the check it < itmax the block size is at least  *)
(* 1, the nbins blocks are pairwise disjoint and of that size, and every     *)
(* index of the series read lies in 0..ndat-1.                               *)
C28_BlocksInRange ==
    (Called("tauintj") /\ Len(called.args.ts) >= 2 /\ called.args.nbins >= 2) =>
        LET ndat == Len(called.args.ts)
            nbins == called.args.nbins
        IN  \A it \in 0..called.args.nt :
                it < itmax(ndat, nbins, it) =>
                    LET bs == binsize(ndat, nbins, it)
                    IN  /\ bs >= 1
                        /\ \A a, b \in 0..(nbins - 1) :
                              /\ Cardinality(Block(bs, a)) = bs
                              /\ a # b => Block(bs, a) \cap Block(bs, b) = {}
                        /\ IndicesRead(ndat, nbins, it) \subseteq 0..(ndat - 1)

(* C28 witness: tauintj returned for a series whose last sample is read at   *)
(* the largest lag, by the last index of the last block.                     *)
C28_Witness ==
    /\ Called("tauintj")
    /\ returned.kind = "value"
    /\ called.args.nt >= 1
    /\ LET ndat == Len(called.args.ts)
           nbins == called.args.nbins
           it == called.args.nt
       IN  /\ nbins * binsize(ndat, nbins, it) - 1 + it = ndat - 1
           /\ (ndat - 1) \in IndicesRead(ndat, nbins, it)

----------------------------------------------------------------------------
(* The derivative wrappers. *)

(* C24: on a constructed Fitter the gradient (Hessian) of the chi-square     *)
(* handed to minimize is absent exactly when the user supplied no gradient   *)
(* (Hessian) and use_diff is false or derive_chisq is true; otherwise the    *)
(* wrapper is wrap_grad (wrap_hess) when the user supplied one and num_grad  *)
(* (num_hess) when not.                                                      *)
C24_DerivativeFallback ==
    ctor = "ok" =>
        /\ jac_func(grad) = "None" <=>
              (_grad = "None" /\ (~_use_diff \/ _derive_chisq))
        /\ hess_func(hess) = "None" <=>
              (_hess = "None" /\ (~_use_diff \/ _derive_chisq))
        /\ jac_func(grad) # "None" =>
              grad = (IF _grad # "None" THEN "wrap_grad" ELSE "num_grad")
        /\ hess_func(hess) # "None" =>
              hess = (IF _hess # "None" THEN "wrap_hess" ELSE "num_hess")

(* C24 witness: the user supplied a Hessian and no gradient and use_diff is  *)
(* false: the Hessian of the chi-square is handed over, the gradient is not. *)
C24_Witness ==
    /\ ctor = "ok"
    /\ ~_use_diff
    /\ _grad = "None" /\ _hess = "user"
    /\ jac_func(grad) = "None"
    /\ hess_func(hess) = "hess_chisquare"

(* C30: whenever the Hessian wrapper is present the gradient wrapper is      *)
(* present too.                                                              *)
C30_HessianNeedsGradient ==
    ctor = "ok" => (hess # "None" => grad # "None")

(* Unless the user supplied a Hessian, the Hessian wrapper is present only   *)
(* with the gradient wrapper.                                                *)
HessianNeedsGradientUnlessSupplied ==
    (ctor = "ok" /\ _hess = "None") => (hess # "None" => grad # "None")

----------------------------------------------------------------------------
(* The hadron resonance gas (physics/HRG.py). *)

MaxHadrons == 2     \* states in the hadron table: 1..MaxHadrons

(* The quantum numbers and chemical potentials the model draws from. *)
QuantumNumbers == {-1, 0, 1}

Potentials == {0, 1}

NumberArrays == [1..MaxHadrons -> QuantumNumbers]

(* The baryon numbers of the table: baryons only. *)
BaryonArrays == [1..MaxHadrons -> {1}]

(* HRG(Mass, g, w, B, S, Q): C is np.zeros(len(Mass)) when not given. *)
HRG(Mass, g, w, B, S, Q) ==
    /\ gas.class = ""
    /\ gas' = [class |-> "HRG", args |-> [B |-> B, S |-> S, Q |-> Q],
               B |-> B, Q |-> Q, S |-> S, C |-> [k \in 1..Len(Mass) |-> 0]]
    /\ UNCHANGED <<fitterVars, estimatorVars, chisquareVars, expcall>>

(* EV_HRG(Mass, g, w, B, S, Q): self.S = Q, self.Q = S. *)
EV_HRG(Mass, g, w, B, S, Q) ==
    /\ gas.class = ""
    /\ gas' = [class |-> "EV_HRG", args |-> [B |-> B, S |-> S, Q |-> Q],
               B |-> B, S |-> Q, Q |-> S, C |-> <<>>]
    /\ UNCHANGED <<fitterVars, estimatorVars, chisquareVars, expcall>>

(* The argument of np.exp in exp():                                          *)
(* N*( B[k]*mu_B + Q[k]*mu_Q + S[k]*mu_S ) / T                               *)
Exponent(B, Q, S, N, T, k, mu_B, mu_Q, mu_S) ==
    Frac(N * (B[k] * mu_B + Q[k] * mu_Q + S[k] * mu_S), T)

(* exp(N, T, k, mu_B, mu_Q, mu_S) of the object constructed (HRG.exp with    *)
(* mu_C = 0): np.exp of the exponent, kept as the term.                      *)
exp(N, T, k, mu_B, mu_Q, mu_S) ==
    /\ gas.class # ""
    /\ expcall' = [N |-> N, T |-> T, k |-> k, mu_B |-> mu_B, mu_Q |-> mu_Q,
                   mu_S |-> mu_S,
                   val |-> <<"exp", Exponent(gas.B, gas.Q, gas.S, N, T, k,
                                             mu_B, mu_Q, mu_S)>>]
    /\ UNCHANGED <<fitterVars, estimatorVars, chisquareVars, gas>>

NextHRG ==
    \/ \E B \in BaryonArrays, S \in NumberArrays, Q \in NumberArrays :
          HRG([k \in 1..MaxHadrons |-> 1], [k \in 1..MaxHadrons |-> 1],
              [k \in 1..MaxHadrons |-> 1], B, S, Q)
    \/ \E B \in BaryonArrays, S \in NumberArrays, Q \in NumberArrays :
          EV_HRG([k \in 1..MaxHadrons |-> 1], [k \in 1..MaxHadrons |-> 1],
                 [k \in 1..MaxHadrons |-> 1], B, S, Q)
    \/ \E N \in 1..2, T \in 1..2, k \in 1..MaxHadrons, mu_B \in Potentials,
          mu_Q \in Potentials, mu_S \in Potentials :
          exp(N, T, k, mu_B, mu_Q, mu_S)

SpecHRG == Init /\ [][NextHRG]_vars

(* exp() has been called on the object. *)
ExpCalled == expcall.N > 0

(* C25: an EV_HRG object keeps the S argument as its strangeness and the Q   *)
(* argument as its electric charge, and its exp() is the exponential of      *)
(* N*(B[k]*mu_B + Q[k]*mu_Q + S[k]*mu_S)/T on the arguments as given, as for *)
(* an HRG object.                                                            *)
C25_QuantumNumbersKeepRoles ==
    gas.class = "EV_HRG" =>
        /\ gas.S = gas.args.S
        /\ gas.Q = gas.args.Q
        /\ ExpCalled =>
              expcall.val = <<"exp", Exponent(gas.args.B, gas.args.Q, gas.args.S,
                                              expcall.N, expcall.T, expcall.k,
                                              expcall.mu_B, expcall.mu_Q, expcall.mu_S)>>

(* An HRG object keeps its arguments in their roles. *)
HRGKeepsRoles ==
    gas.class = "HRG" =>
        /\ gas.S = gas.args.S
        /\ gas.Q = gas.args.Q
        /\ ExpCalled =>
              expcall.val = <<"exp", Exponent(gas.args.B, gas.args.Q, gas.args.S,
                                              expcall.N, expcall.T, expcall.k,
                                              expcall.mu_B, expcall.mu_Q, expcall.mu_S)>>

----------------------------------------------------------------------------
(* The parameter covariance (pcov_error_prop, pcov_hessian).  A matrix is a  *)
(* sequence of rows of rationals; an entry that is nan or inf is NaN.        *)

(* A.dot(B) *)
Dot(A, B) ==
    [i \in 1..Len(A) |->
        [j \in 1..Len(B[1]) |-> Sum([k \in 1..Len(B) |-> FracMul(A[i][k], B[k][j])])]]

(* A.transpose() *)
transpose(A) == [j \in 1..Len(A[1]) |-> [i \in 1..Len(A) |-> A[i][j]]]

(* np.diag(A) of a square matrix *)
diag(A) == [i \in 1..Len(A) |-> A[i][i]]

(* np.sum(A) of a matrix *)
SumAll(A) == Sum([i \in 1..Len(A) |-> Sum(A[i])])

(* np.min(v): nan when an entry is nan. *)
Min(v) ==
    IF \E i \in 1..Len(v) : IsNaN(v[i]) THEN NaN
    ELSE v[CHOOSE i \in 1..Len(v) : \A j \in 1..Len(v) : ~FracLess(v[j], v[i])]

MatAdd(A, B) == [i \in 1..Len(A) |-> [j \in 1..Len(A[i]) |-> FracAdd(A[i][j], B[i][j])]]

MatScale(c, A) == [i \in 1..Len(A) |-> [j \in 1..Len(A[i]) |-> FracMul(c, A[i][j])]]

Identity(n) == [i \in 1..n |-> [j \in 1..n |-> IF i = j THEN Num(1) ELSE Num(0)]]

ZeroMatrix(n) == [i \in 1..n |-> [j \in 1..n |-> Num(0)]]

(* The determinant and the adjugate of a 1x1 or 2x2 matrix. *)
Det(A) ==
    IF Len(A) = 1 THEN A[1][1]
    ELSE FracSub(FracMul(A[1][1], A[2][2]), FracMul(A[1][2], A[2][1]))

Adjugate(A) ==
    IF Len(A) = 1 THEN <<<<Num(1)>>>>
    ELSE <<<<A[2][2], FracNeg(A[1][2])>>, <<FracNeg(A[2][1]), A[1][1]>>>>

HasNaNEntry(A) == \E i \in 1..Len(A) : \E j \in 1..Len(A[i]) : IsNaN(A[i][j])

(* np.linalg.inv(A): LinAlgError for a singular matrix, nan for a matrix     *)
(* with a nan entry, and otherwise the inverse up to the rounding error of   *)
(* the routine, which is an input.                                           *)
np_linalg_inv(A, rounding) ==
    IF HasNaNEntry(A) THEN Value([i \in 1..Len(A) |-> [j \in 1..Len(A) |-> NaN]])
    ELSE IF Det(A) = Num(0) THEN Raised("LinAlgError")
    ELSE Value(MatAdd(MatScale(FracDiv(Num(1), Det(A)), Adjugate(A)), rounding))

(* scipy.linalg.inv(A), check_finite=True: ValueError for a nan or inf       *)
(* entry, LinAlgError for a singular matrix.                                 *)
inv(A) ==
    IF HasNaNEntry(A) THEN Raised("ValueError")
    ELSE IF Det(A) = Num(0) THEN Raised("LinAlgError")
    ELSE Value(MatScale(FracDiv(Num(1), Det(A)), Adjugate(A)))

(* jac.transpose() / np.sqrt(np.diag(self._cov)), transposed back: row i of  *)
(* the Jacobian divided by the error of data point i.                        *)
ScaledJacobian(jac, sigma) ==
    [i \in 1..Len(jac) |-> [k \in 1..Len(jac[i]) |-> FracDiv(jac[i][k], Num(sigma[i]))]]

(* jej = jac.transpose().dot(inv_cov_mat.dot(jac)); the data have errors and *)
(* no correlations, so self._fit_inv_cor is the identity.                    *)
jej(jac, sigma) ==
    LET j == ScaledJacobian(jac, sigma)
    IN  Dot(transpose(j), Dot(Identity(Len(jac)), j))

(* The self-consistency check of pcov_error_prop (line 566). *)
PrecisionLost(test, test_tol) ==
    FracLess(test_tol, FracAbs(FracSub(SumAll(test), Sum(diag(test)))))

(* pcov_error_prop(params, algorithm) on the Jacobian jac: every exception   *)
(* of the try block reaches the handler, whose                               *)
(* ValueError(algorithm + "hit exception " + e) adds an exception to a       *)
(* string and so raises TypeError.                                           *)
pcov_error_prop(jac, sigma, rounding, test_tol) ==
    LET r == np_linalg_inv(jej(jac, sigma), rounding)
    IN  IF r.kind # "value" THEN Raised("TypeError")
        ELSE LET inv_jej == r.val
                 test == Dot(inv_jej, jej(jac, sigma))
                 pcov == inv_jej
             IN  IF PrecisionLost(test, test_tol) THEN Raised("TypeError")
                 ELSE IF FracLess(Min(diag(pcov)), Num(0)) THEN Raised("TypeError")
                 ELSE Value(pcov)

(* The data term of hess_chisquare (line 415); curv is                       *)
(* hess.dot(self._fit_inv_cor.dot(diff.transpose())), the zero matrix for a  *)
(* fit function linear in its parameters.                                    *)
HessChisquare(curv, jac, sigma) == MatScale(Num(2), MatAdd(curv, jej(jac, sigma)))

(* pcov_hessian(params, algorithm) *)
pcov_hessian(curv, jac, sigma) ==
    LET r == inv(HessChisquare(curv, jac, sigma))
    IN  IF r.kind # "value" THEN r
        ELSE IF FracLess(Min(diag(r.val)), Num(0)) THEN Raised("ValueError")
        ELSE r

(* The inputs: two data points, one or two parameters. *)
ParamCounts == {1, 2}

JacEntries == {Num(0), Num(1), NaN}

Jacobians == UNION {[1..2 -> [1..p -> JacEntries]] : p \in ParamCounts}

SigmaVectors == {<<1, 1>>, <<1, 2>>}

(* self._test_tol, and the rounding errors of np.linalg.inv: none, or one    *)
(* entry of the first row off by more than the tolerance.                    *)
TestTol == Frac(1, 10)

Roundings(p) ==
    {ZeroMatrix(p),
     [i \in 1..p |-> [j \in 1..p |-> IF i = 1 /\ j = p THEN Frac(1, 2) ELSE Num(0)]]}

Curvatures(p) ==
    {ZeroMatrix(p), [i \in 1..p |-> [j \in 1..p |-> IF i = j THEN Num(1) ELSE Num(0)]]}

Call_pcov_error_prop(jac, sigma, rounding) ==
    Call("pcov_error_prop", [jac |-> jac, sigma |-> sigma, rounding |-> rounding],
         pcov_error_prop(jac, sigma, rounding, TestTol), <<>>)

Call_pcov_hessian(curv, jac, sigma) ==
    Call("pcov_hessian", [jac |-> jac, sigma |-> sigma, curv |-> curv],
         pcov_hessian(curv, jac, sigma), <<>>)

NextPcov ==
    \/ \E jac \in Jacobians, sigma \in SigmaVectors :
          \E rounding \in Roundings(Len(jac[1])) :
              Call_pcov_error_prop(jac, sigma, rounding)
    \/ \E jac \in Jacobians, sigma \in SigmaVectors :
          \E curv \in Curvatures(Len(jac[1])) :
              Call_pcov_hessian(curv, jac, sigma)

SpecPcov == Init /\ [][NextPcov]_vars

(* x is within test_tol of y. *)
Close(x, y) == ~IsNaN(x) /\ ~IsNaN(y) /\ ~FracLess(TestTol, FracAbs(FracSub(x, y)))

CloseToIdentity(A) ==
    \A i \in 1..Len(A), j \in 1..Len(A) :
        Close(A[i][j], IF i = j THEN Num(1) ELSE Num(0))

(* C21: for a fit function linear in its parameters (no curvature term), no  *)
(* priors and a Jacobian of full rank, pcov_hessian returns the matrix       *)
(* pcov_error_prop returns at the same parameters.                           *)
C21_StrategiesAgree ==
    (/\ Called("pcov_hessian")
     /\ called.args.curv = ZeroMatrix(Len(called.args.curv))
     /\ ~HasNaNEntry(called.args.jac)
     /\ Det(jej(called.args.jac, called.args.sigma)) # Num(0)) =>
        returned = pcov_error_prop(called.args.jac, called.args.sigma,
                                   ZeroMatrix(Len(called.args.curv)), TestTol)

(* For such a fit pcov_hessian returns one half of what pcov_error_prop      *)
(* returns.                                                                  *)
HessianStrategyIsHalf ==
    (/\ Called("pcov_hessian")
     /\ called.args.curv = ZeroMatrix(Len(called.args.curv))
     /\ ~HasNaNEntry(called.args.jac)
     /\ Det(jej(called.args.jac, called.args.sigma)) # Num(0)) =>
        /\ returned.kind = "value"
        /\ MatScale(Num(2), returned.val)
             = pcov_error_prop(called.args.jac, called.args.sigma,
                               ZeroMatrix(Len(called.args.curv)), TestTol).val

(* C22: a matrix pcov_error_prop returns has no negative diagonal entry and  *)
(* its product with jej is within test_tol of the identity; for a singular   *)
(* jej the function raises.                                                  *)
C22_ReturnedCovarianceIsChecked ==
    Called("pcov_error_prop") =>
        LET A == jej(called.args.jac, called.args.sigma)
        IN  /\ returned.kind = "value" =>
                  /\ CloseToIdentity(Dot(A, returned.val))
                  /\ \A i \in 1..Len(A) : ~FracLess(returned.val[i][i], Num(0))
            /\ (~HasNaNEntry(A) /\ Det(A) = Num(0)) => returned.kind = "raised"

(* What the check of pcov_error_prop does ensure: the off-diagonal entries   *)
(* of inv_jej*jej sum to at most test_tol in absolute value, no diagonal     *)
(* entry of the result compares below zero, and a singular jej raises.       *)
PcovOffDiagonalSumChecked ==
    Called("pcov_error_prop") =>
        LET A == jej(called.args.jac, called.args.sigma)
        IN  /\ returned.kind = "value" =>
                  /\ ~PrecisionLost(Dot(returned.val, A), TestTol)
                  /\ \A i \in 1..Len(A) : ~FracLess(returned.val[i][i], Num(0))
            /\ (~HasNaNEntry(A) /\ Det(A) = Num(0)) => returned.kind = "raised"

(* pcov_error_prop raised on a regular jej because of the rounding error.    *)
PcovPrecisionLostRaised ==
    /\ Called("pcov_error_prop")
    /\ ~HasNaNEntry(called.args.jac)
    /\ Det(jej(called.args.jac, called.args.sigma)) # Num(0)
    /\ returned.kind = "raised"

====
